---------------------------- MODULE Spec2Model ----------------------------
(***************************************************************************)
(* A model of JessiQL (kolypto/py-jessiql): the cursor pager               *)
(* (operations/pager), the select-in eager loader (engine/jselectinloader) *)
(* and the recursive query executor (engine/query_executor).               *)
(*                                                                         *)
(* Python's None is modelled as the integer -1 where an optional integer   *)
(* is expected, as NoCursor where an optional cursor string is expected    *)
(* and as the empty tuple where an optional tuple is expected.             *)
(***************************************************************************)
EXTENDS Integers, Sequences, FiniteSets, TLC

(***************************************************************************)
(* Bounds of the model                                                     *)
(***************************************************************************)
\* the table that is paginated holds 0..MaxRows rows
MaxRows == 3
\* limits a client may request, and limits a QuerySettings may configure
MaxLimit == 2

None == -1

Min(a, b) == IF a < b THEN a ELSE b
Max(a, b) == IF a > b THEN a ELSE b

(***************************************************************************)
(* The database table behind the paginated model: rows with a unique,      *)
(* non-nullable primary key "id" and a non-unique column "a".              *)
(* Rows 1,2,3,4.. carry a = 2,1,2,1.. so that sorting by "a" differs from  *)
(* the storage order and has ties.                                         *)
(***************************************************************************)
AVal(id) == IF id % 2 = 1 THEN 2 ELSE 1

RowOf(id) == [id |-> id, a |-> AVal(id)]

TableRows(total) == {RowOf(id) : id \in 1..total}

\* sainfo/columns.py: "id" is the primary key, "a" is a plain nullable column
is_column_property_unique(name) == name = "id"

is_column_property_nullable(name) == name # "id"

(***************************************************************************)
(* SQL semantics of the statements the pager builds                        *)
(***************************************************************************)
RECURSIVE RowBefore(_, _, _)
\* ORDER BY fields (each ASC or DESC); rows that tie keep the storage order
RowBefore(r1, r2, fields) ==
    IF fields = <<>> THEN r1.id < r2.id
    ELSE LET f == Head(fields) IN
         IF r1[f.name] = r2[f.name] THEN RowBefore(r1, r2, Tail(fields))
         ELSE IF f.direction = "ASC" THEN r1[f.name] < r2[f.name]
                                     ELSE r1[f.name] > r2[f.name]

RECURSIVE Ordered(_, _)
Ordered(rowset, fields) ==
    IF rowset = {} THEN <<>>
    ELSE LET first == CHOOSE r \in rowset :
                        \A o \in rowset \ {r} : RowBefore(r, o, fields)
         IN <<first>> \o Ordered(rowset \ {first}, fields)

RECURSIVE TupleGreater(_, _)
\* SQL row-value comparison (a, b) > (x, y): lexicographic
TupleGreater(t, v) ==
    IF t = <<>> \/ v = <<>> THEN FALSE
    ELSE IF Head(t) = Head(v) THEN TupleGreater(Tail(t), Tail(v))
    ELSE Head(t) > Head(v)

RowTuple(row, names) == [i \in 1..Len(names) |-> row[names[i]]]

SortNames(fields) == [i \in 1..Len(fields) |-> fields[i].name]

SeqToSet(s) == {s[i] : i \in 1..Len(s)}

\* WHERE clause of a statement: none, or tuple_(cols) > val, or tuple_(cols) < val
WhereHolds(row, where) ==
    CASE where.op = "true" -> TRUE
      [] where.op = ">" -> TupleGreater(RowTuple(row, where.cols), where.val)
      [] where.op = "<" -> TupleGreater(where.val, RowTuple(row, where.cols))

\* connection.execute(stmt): WHERE, then ORDER BY, then OFFSET, then LIMIT
Execute(stmt, total) ==
    LET matching == {r \in TableRows(total) : WhereHolds(r, stmt.where)}
        sorted == Ordered(matching, stmt.order_by)
        last == IF stmt.limit = None THEN Len(sorted)
                ELSE Min(Len(sorted), stmt.offset + stmt.limit)
    IN SubSeq(sorted, stmt.offset + 1, last)


(***************************************************************************)
(* QuerySettings (engine/settings.py)                                      *)
(***************************************************************************)
\* Python truthiness of an optional integer: None and 0 are falsy
Truthy(n) == n # None /\ n # 0

get_final_limit(settings, limit) ==
    LET limit1 == IF ~Truthy(limit) THEN settings.default_limit ELSE limit
    IN IF Truthy(limit1) /\ Truthy(settings.max_limit)
       THEN Min(limit1, settings.max_limit)
       ELSE limit1

(***************************************************************************)
(* Opaque cursors (features/cursor/cursors/encode.py): the string          *)
(* prefix + ":" + b85(json(data)) is modelled by its two parts.            *)
(***************************************************************************)
NoCursor == [prefix |-> "none"]

encode_opaque_cursor(prefix, data) == [prefix |-> prefix, data |-> data]

decode_opaque_cursor(cursor) == <<cursor.prefix, cursor.data>>

\* A cursor string a client made up is modelled by the same record: prefix is
\* its text up to the first ":" (all of it, if it has none), and a field
\* "broken" tells what is wrong with the string: it has no ":", or what
\* follows the ":" is not base85, or is base85 of something that is not JSON.
Broken(cursor, how) == "broken" \in DOMAIN cursor /\ cursor.broken = how

\* the exception decode_opaque_cursor raises for a cursor string, or "none"
decode_opaque_cursor_raises(cursor) ==
    IF Broken(cursor, "no_separator") THEN "ValueError"
    ELSE IF cursor.prefix \notin {"skip", "keys"} THEN "AssertionError"
    ELSE IF Broken(cursor, "not_base85") THEN "ValueError"
    ELSE IF Broken(cursor, "not_json") THEN "JSONDecodeError"
    ELSE "none"

\* cls(**data): the payload's keys have to be the fields of the named tuple
CursorData_decode_raises(cursor, fields) ==
    LET raises == decode_opaque_cursor_raises(cursor) IN
    IF raises # "none" THEN raises
    ELSE IF DOMAIN cursor.data # fields THEN "TypeError"
    ELSE "none"

SkipCursorData_decode_raises(cursor) ==
    CursorData_decode_raises(cursor, {"skip", "limit"})

KeysetCursorData_decode_raises(cursor) ==
    CursorData_decode_raises(cursor, {"limit", "cols", "op", "val"})

SkipCursorData_encode(skip, limit) ==
    encode_opaque_cursor("skip", [skip |-> skip, limit |-> limit])

SkipCursorData_decode(cursor) == decode_opaque_cursor(cursor)[2]

KeysetCursorData_encode(limit, cols, op, val) ==
    encode_opaque_cursor("keys", [limit |-> limit, cols |-> cols, op |-> op, val |-> val])

KeysetCursorData_decode(cursor) == decode_opaque_cursor(cursor)[2]

\* cursor_value of a cursor implementation that got no cursor
NoValue == [set |-> FALSE]

\* page_info before the result rows were inspected
NoPageInfo == [known |-> FALSE]

NoLinks == [prev |-> NoCursor, next |-> NoCursor]

(***************************************************************************)
(* SkipCursor (operations/pager/cursor_skip.py)                            *)
(***************************************************************************)
\* a variant that keeps a skip that comes without a limit
SkipCursor_init_SkipAlone(cursor, skip, limit) ==
    IF cursor # NoCursor /\ SkipCursorData_decode_raises(cursor) # "none" THEN
        [exc |-> SkipCursorData_decode_raises(cursor)]
    ELSE IF cursor # NoCursor THEN
        LET cv == SkipCursorData_decode(cursor) IN
        IF limit \notin {None, cv.limit}
        THEN [exc |-> "QueryObjectError"]
        ELSE [exc |-> "none", name |-> "skip", limit |-> cv.limit,
              cursor_value |-> [set |-> TRUE, skip |-> cv.skip, limit |-> cv.limit],
              page_info |-> NoPageInfo]
    ELSE IF skip # None THEN
        [exc |-> "none", name |-> "skip", limit |-> limit,
         cursor_value |-> [set |-> TRUE, skip |-> skip, limit |-> limit],
         page_info |-> NoPageInfo]
    ELSE
        [exc |-> "none", name |-> "skip", limit |-> limit,
         cursor_value |-> NoValue, page_info |-> NoPageInfo]

SkipCursor_init(cursor, skip, limit) ==
    IF cursor # NoCursor /\ SkipCursorData_decode_raises(cursor) # "none" THEN
        [exc |-> SkipCursorData_decode_raises(cursor)]
    ELSE IF cursor # NoCursor THEN
        LET cv == SkipCursorData_decode(cursor) IN
        IF limit \notin {None, cv.limit}
        THEN [exc |-> "QueryObjectError"]
        ELSE [exc |-> "none", name |-> "skip", limit |-> cv.limit,
              cursor_value |-> [set |-> TRUE, skip |-> cv.skip, limit |-> cv.limit],
              page_info |-> NoPageInfo]
    ELSE IF skip # None /\ limit # None THEN
        [exc |-> "none", name |-> "skip", limit |-> limit,
         cursor_value |-> [set |-> TRUE, skip |-> skip, limit |-> limit],
         page_info |-> NoPageInfo]
    ELSE
        [exc |-> "none", name |-> "skip", limit |-> limit,
         cursor_value |-> NoValue, page_info |-> NoPageInfo]

\* a variant that does not load the one extra row
SkipCursor_apply_to_statement_NoExtraRow(impl, query) ==
    LET skip == IF impl.cursor_value.set THEN impl.cursor_value.skip ELSE 0
        limit == IF impl.limit # None THEN impl.limit ELSE None
    IN [exc |-> "none",
        stmt |-> [order_by |-> query.sort, where |-> [op |-> "true"],
                  offset |-> skip, limit |-> limit]]

SkipCursor_apply_to_statement(impl, query) ==
    LET skip == IF impl.cursor_value.set THEN impl.cursor_value.skip ELSE 0
        limit == IF impl.limit # None THEN impl.limit + 1 ELSE None
    IN [exc |-> "none",
        stmt |-> [order_by |-> query.sort, where |-> [op |-> "true"],
                  offset |-> skip, limit |-> limit]]

\* returns the cursor with its page_info, and the rows after the in-place pop()
SkipCursor_inspect_data_rows(impl, query, rows) ==
    IF impl.limit = None
    THEN [exc |-> "none", rows |-> rows,
          impl |-> [impl EXCEPT !.page_info = [known |-> TRUE, has_next_page |-> FALSE]]]
    ELSE LET has_next_page == Len(rows) = impl.limit + 1 IN
         [exc |-> "none",
          rows |-> IF has_next_page THEN SubSeq(rows, 1, Len(rows) - 1) ELSE rows,
          impl |-> [impl EXCEPT !.page_info =
                        [known |-> TRUE, has_next_page |-> has_next_page]]]

\* a variant whose prev link does not stop at the first row
SkipCursor_get_page_links_PrevBelowZero(impl) ==
    IF ~impl.page_info.known THEN [exc |-> "RuntimeError"]
    ELSE LET skip == IF impl.cursor_value.set THEN impl.cursor_value.skip ELSE 0
             limit == impl.limit
         IN IF limit = None THEN [exc |-> "none", links |-> NoLinks]
            ELSE [exc |-> "none",
                  links |-> [prev |-> IF skip <= 0 THEN NoCursor
                                      ELSE SkipCursorData_encode(skip - limit, limit),
                             next |-> IF impl.page_info.has_next_page
                                      THEN SkipCursorData_encode(skip + limit, limit)
                                      ELSE NoCursor]]

SkipCursor_get_page_links(impl) ==
    IF ~impl.page_info.known THEN [exc |-> "RuntimeError"]
    ELSE LET skip == IF impl.cursor_value.set THEN impl.cursor_value.skip ELSE 0
             limit == impl.limit
         IN IF limit = None THEN [exc |-> "none", links |-> NoLinks]
            ELSE [exc |-> "none",
                  links |-> [prev |-> IF skip <= 0 THEN NoCursor
                                      ELSE SkipCursorData_encode(Max(skip - limit, 0), limit),
                             next |-> IF impl.page_info.has_next_page
                                      THEN SkipCursorData_encode(skip + limit, limit)
                                      ELSE NoCursor]]

(***************************************************************************)
(* KeysetCursor (operations/pager/cursor_keyset.py)                        *)
(***************************************************************************)
\* a variant that takes the cursor's limit without comparing it
KeysetCursor_init_NoLimitCheck(cursor, limit) ==
    IF cursor # NoCursor /\ KeysetCursorData_decode_raises(cursor) # "none" THEN
        [exc |-> KeysetCursorData_decode_raises(cursor)]
    ELSE IF cursor # NoCursor THEN
        LET cv == KeysetCursorData_decode(cursor) IN
        [exc |-> "none", name |-> "keys", limit |-> cv.limit,
         cursor_value |-> [set |-> TRUE, limit |-> cv.limit, cols |-> cv.cols,
                           op |-> cv.op, val |-> cv.val],
         page_info |-> NoPageInfo]
    ELSE [exc |-> "none", name |-> "keys", limit |-> limit,
          cursor_value |-> NoValue, page_info |-> NoPageInfo]

KeysetCursor_init(cursor, limit) ==
    IF cursor # NoCursor /\ KeysetCursorData_decode_raises(cursor) # "none" THEN
        [exc |-> KeysetCursorData_decode_raises(cursor)]
    ELSE IF cursor # NoCursor THEN
        LET cv == KeysetCursorData_decode(cursor) IN
        IF limit \notin {None, cv.limit}
        THEN [exc |-> "QueryObjectError"]
        ELSE [exc |-> "none", name |-> "keys", limit |-> cv.limit,
              cursor_value |-> [set |-> TRUE, limit |-> cv.limit, cols |-> cv.cols,
                                op |-> cv.op, val |-> cv.val],
              page_info |-> NoPageInfo]
    ELSE [exc |-> "none", name |-> "keys", limit |-> limit,
          cursor_value |-> NoValue, page_info |-> NoPageInfo]

Directions(fields) == {fields[i].direction : i \in 1..Len(fields)}

KeysetCursor_pagination_possible(query) ==
    /\ query.sort # <<>>
    /\ Cardinality(Directions(query.sort)) = 1
    /\ LET final_field == query.sort[Len(query.sort)] IN
         /\ is_column_property_unique(final_field.name)
         /\ ~is_column_property_nullable(final_field.name)
    /\ SeqToSet(SortNames(query.sort)) \subseteq query.select

KeysetCursor_apply_to_statement(impl, query) ==
    LET cursor == impl.cursor_value IN
    IF ~cursor.set THEN
        [exc |-> "none",
         stmt |-> [order_by |-> query.sort, where |-> [op |-> "true"], offset |-> 0,
                   limit |-> IF impl.limit = None THEN None ELSE impl.limit + 1]]
    ELSE IF SeqToSet(cursor.cols) # SeqToSet(SortNames(query.sort))
    THEN [exc |-> "QueryObjectError"]
    ELSE [exc |-> "none",
          stmt |-> [order_by |-> query.sort,
                    where |-> [op |-> cursor.op, cols |-> SortNames(query.sort),
                               val |-> cursor.val],
                    offset |-> 0, limit |-> cursor.limit + 1]]

\* the keys of a row dict: the selected columns, or the primary key if none
RowKeys(query) == IF query.select = {} THEN {"id"} ELSE query.select

\* a variant that takes the last tuple from the extra row, rows[-1]
KeysetCursor_inspect_data_rows_ExtraRowTuple(impl, query, rows) ==
    LET limit == IF impl.cursor_value.set THEN impl.cursor_value.limit ELSE impl.limit
        column_names == SortNames(query.sort)
        sort_asc == query.sort[1].direction = "ASC"
        has_prev_page == impl.cursor_value.set
    IN
    IF rows = <<>> \/ limit = None THEN
        [exc |-> "none", rows |-> rows,
         impl |-> [impl EXCEPT !.page_info =
            [known |-> TRUE, column_names |-> column_names, sort_asc |-> sort_asc,
             first_tuple |-> <<>>, last_tuple |-> <<>>,
             has_prev_page |-> has_prev_page, has_next_page |-> FALSE]]]
    ELSE IF ~(SeqToSet(column_names) \subseteq RowKeys(query))
    THEN [exc |-> "KeyError"]
    ELSE LET has_next_page == Len(rows) = limit + 1
             first_tuple == RowTuple(rows[1], column_names)
             last_tuple == IF has_next_page
                           THEN RowTuple(rows[Len(rows)], column_names)
                           ELSE <<>>
         IN [exc |-> "none",
             rows |-> IF has_next_page THEN SubSeq(rows, 1, Len(rows) - 1) ELSE rows,
             impl |-> [impl EXCEPT !.page_info =
                [known |-> TRUE, column_names |-> column_names, sort_asc |-> sort_asc,
                 first_tuple |-> first_tuple, last_tuple |-> last_tuple,
                 has_prev_page |-> has_prev_page, has_next_page |-> has_next_page]]]

KeysetCursor_inspect_data_rows(impl, query, rows) ==
    LET limit == IF impl.cursor_value.set THEN impl.cursor_value.limit ELSE impl.limit
        column_names == SortNames(query.sort)
        sort_asc == query.sort[1].direction = "ASC"
        has_prev_page == impl.cursor_value.set
    IN
    IF rows = <<>> \/ limit = None THEN
        [exc |-> "none", rows |-> rows,
         impl |-> [impl EXCEPT !.page_info =
            [known |-> TRUE, column_names |-> column_names, sort_asc |-> sort_asc,
             first_tuple |-> <<>>, last_tuple |-> <<>>,
             has_prev_page |-> has_prev_page, has_next_page |-> FALSE]]]
    ELSE IF ~(SeqToSet(column_names) \subseteq RowKeys(query))
    THEN [exc |-> "KeyError"]
    ELSE LET has_next_page == Len(rows) = limit + 1
             first_tuple == RowTuple(rows[1], column_names)
             last_tuple == IF has_next_page
                           THEN RowTuple(rows[Len(rows) - 1], column_names)
                           ELSE <<>>
         IN [exc |-> "none",
             rows |-> IF has_next_page THEN SubSeq(rows, 1, Len(rows) - 1) ELSE rows,
             impl |-> [impl EXCEPT !.page_info =
                [known |-> TRUE, column_names |-> column_names, sort_asc |-> sort_asc,
                 first_tuple |-> first_tuple, last_tuple |-> last_tuple,
                 has_prev_page |-> has_prev_page, has_next_page |-> has_next_page]]]

KeysetCursor_get_page_links(impl) ==
    IF ~impl.page_info.known THEN [exc |-> "AttributeError"]
    ELSE LET page_info == impl.page_info
             limit == IF impl.cursor_value.set THEN impl.cursor_value.limit ELSE impl.limit
         IN [exc |-> "none",
             links |-> [prev |-> IF page_info.has_prev_page
                                 THEN KeysetCursorData_encode(limit, page_info.column_names,
                                          IF page_info.sort_asc THEN "<" ELSE ">",
                                          page_info.first_tuple)
                                 ELSE NoCursor,
                        next |-> IF page_info.has_next_page
                                 THEN KeysetCursorData_encode(limit, page_info.column_names,
                                          IF page_info.sort_asc THEN ">" ELSE "<",
                                          page_info.last_tuple)
                                 ELSE NoCursor]]


(***************************************************************************)
(* SkipLimitOperation.__init__ and BeforeAfterOperation                    *)
(* (operations/pager/skiplimit.py, operations/pager/beforeafter.py)        *)
(***************************************************************************)
SkipLimitOperation_init(query, settings) ==
    [skip |-> query.skip, limit |-> get_final_limit(settings, query.limit)]

\* how many of before, after, skip the Query Object sets
PagingMethodsSet(query) ==
    (IF query.before # NoCursor THEN 1 ELSE 0)
    + (IF query.after # NoCursor THEN 1 ELSE 0)
    + (IF query.skip # None THEN 1 ELSE 0)

\* a variant whose exclusivity check forgets "skip"
BeforeAfterOperation_init_SkipNotCounted(query, settings) ==
    LET skiplimit_op == SkipLimitOperation_init(query, settings)
        limit == get_final_limit(settings, skiplimit_op.limit)
    IN IF query.before # NoCursor /\ query.after # NoCursor
       THEN [exc |-> "QueryObjectError"]
       ELSE [exc |-> "none", skiplimit_op |-> skiplimit_op, limit |-> limit,
             cursor |-> IF query.before # NoCursor THEN query.before
                        ELSE IF query.after # NoCursor THEN query.after
                        ELSE NoCursor,
             direction |-> IF query.before # NoCursor THEN -1
                           ELSE IF query.after # NoCursor THEN 1
                           ELSE 0]

BeforeAfterOperation_init(query, settings) ==
    LET skiplimit_op == SkipLimitOperation_init(query, settings)
        limit == get_final_limit(settings, skiplimit_op.limit)
    IN IF PagingMethodsSet(query) > 1
       THEN [exc |-> "QueryObjectError"]
       ELSE [exc |-> "none", skiplimit_op |-> skiplimit_op, limit |-> limit,
             cursor |-> IF query.before # NoCursor THEN query.before
                        ELSE IF query.after # NoCursor THEN query.after
                        ELSE NoCursor,
             direction |-> IF query.before # NoCursor THEN -1
                           ELSE IF query.after # NoCursor THEN 1
                           ELSE 0]

\* cursor.startswith(name), for the cursor strings of the model
startswith(cursor, name) ==
    \/ cursor.prefix = name
    \/ name = "skip" /\ cursor.prefix = "skipper"
    \/ name = "keys" /\ cursor.prefix = "keyset"

\* the name of the cursor class for a cursor string
get_cursor_impl_cls(cursor) ==
    IF startswith(cursor, "skip") THEN "skip"
    ELSE IF startswith(cursor, "keys") THEN "keys"
    ELSE "NotImplementedError"

BeforeAfterOperation_for_query(op, query) ==
    LET cls == IF op.cursor = NoCursor
               THEN IF KeysetCursor_pagination_possible(query) THEN "keys" ELSE "skip"
               ELSE get_cursor_impl_cls(op.cursor)
        impl == IF cls = "keys" THEN KeysetCursor_init(op.cursor, op.limit)
                ELSE IF cls = "skip"
                THEN SkipCursor_init(op.cursor, op.skiplimit_op.skip, op.limit)
                ELSE [exc |-> cls]
    IN IF impl.exc # "none" THEN [exc |-> impl.exc]
       ELSE [exc |-> "none", skiplimit_op |-> op.skiplimit_op, limit |-> impl.limit,
             cursor |-> op.cursor, direction |-> op.direction, cursor_impl |-> impl]

BeforeAfterOperation_apply_to_statement(op, query) ==
    IF op.cursor_impl.name = "keys"
    THEN KeysetCursor_apply_to_statement(op.cursor_impl, query)
    ELSE SkipCursor_apply_to_statement(op.cursor_impl, query)

BeforeAfterOperation_apply_to_results(op, query, rows) ==
    IF op.cursor_impl.name = "keys"
    THEN KeysetCursor_inspect_data_rows(op.cursor_impl, query, rows)
    ELSE SkipCursor_inspect_data_rows(op.cursor_impl, query, rows)

BeforeAfterOperation_get_page_links(op) ==
    IF op.cursor_impl.name = "keys"
    THEN KeysetCursor_get_page_links(op.cursor_impl)
    ELSE SkipCursor_get_page_links(op.cursor_impl)

\* the pager of a Query that is not constructed (yet, or because it raised)
NoPager == [exc |-> "unset"]

\* Query(query_object, Model, settings): the pager part of the constructor
Query_init(query, settings) ==
    LET op == BeforeAfterOperation_init(query, settings)
    IN IF op.exc # "none" THEN op ELSE BeforeAfterOperation_for_query(op, query)

(***************************************************************************)
(* The requests a client sends                                             *)
(***************************************************************************)
Asc(name) == [name |-> name, direction |-> "ASC"]

Desc(name) == [name |-> name, direction |-> "DESC"]

SortChoices ==
    { <<>>, <<Asc("id")>>, <<Desc("id")>>, <<Asc("a")>>,
      <<Asc("a"), Asc("id")>>, <<Desc("a"), Desc("id")>>, <<Asc("a"), Desc("id")>> }

SelectChoices == { {}, {"id"}, {"id", "a"} }

OptLimits == {None} \cup (0..MaxLimit)

OptSkips == {None} \cup (0..MaxRows)

\* hand-made cursors a client may send in a first request
CursorPool ==
    { SkipCursorData_encode(1, 1),
      KeysetCursorData_encode(1, <<"id">>, ">", <<1>>) }

PlainRequests ==
    [select : SelectChoices, sort : SortChoices, skip : OptSkips, limit : OptLimits,
     before : {NoCursor}, after : {NoCursor}]

CursorRequests ==
    { q \in [select : {{"id", "a"}}, sort : {<<Asc("id")>>, <<Asc("a"), Asc("id")>>},
             skip : {None, 0, 1}, limit : OptLimits,
             before : {NoCursor} \cup CursorPool, after : {NoCursor} \cup CursorPool] :
        q.before # NoCursor \/ q.after # NoCursor }

\* cursor strings that no page link ever held
MalformedCursors ==
    { [prefix |-> "skip", broken |-> "no_separator"],
      [prefix |-> "page", broken |-> "no_separator"],
      [prefix |-> "page", data |-> [skip |-> 1, limit |-> 1]],
      [prefix |-> "skipper", data |-> [skip |-> 1, limit |-> 1]],
      [prefix |-> "skip", broken |-> "not_base85"],
      [prefix |-> "keys", broken |-> "not_json"],
      [prefix |-> "skip", data |-> [skip |-> 1]],
      [prefix |-> "skip", data |-> [skip |-> 1, limit |-> 1, page |-> 1]],
      [prefix |-> "keys", data |-> [skip |-> 1, limit |-> 1]] }

MalformedRequests ==
    { q \in [select : {{"id", "a"}}, sort : {<<Asc("id")>>}, skip : {None},
             limit : {None, 1},
             before : {NoCursor} \cup MalformedCursors,
             after : {NoCursor} \cup MalformedCursors] :
        (q.before = NoCursor) # (q.after = NoCursor) }

Requests == PlainRequests \cup CursorRequests \cup MalformedRequests

SettingsChoices ==
    [default_limit : {None} \cup (1..MaxLimit), max_limit : {None} \cup (1..MaxLimit)]

NoQuery ==
    [select |-> {}, sort |-> <<>>, skip |-> None, limit |-> None,
     before |-> NoCursor, after |-> NoCursor]

(***************************************************************************)
(* The eager loader of related rows (engine/jselectinloader.py,            *)
(* engine/loader.py) and the window pagination of a relation               *)
(* (operations/pager/skiplimit.py).                                        *)
(*                                                                         *)
(* A parent row ("state") is a dict that the loader populates in place:    *)
(* the model names a state by its position in the batch.  Key tuples have  *)
(* one column and are modelled by that column's value.                     *)
(***************************************************************************)
\* SelectInLoader._chunksize: keys per SELECT .. IN statement
CHUNKSIZE == 500
\* explicit batches hold 0..MaxParents parent rows
MaxParents == 2
\* key values of the rows of explicit batches
MaxKey == 3
\* a parent row has 0..MaxChildren children
MaxChildren == 2

\* the value under the relation's key in a parent row
Unset == [kind |-> "unset"]
PyNone == [kind |-> "None"]
PyRow(row) == [kind |-> "row", row |-> row]
PyList(items) == [kind |-> "list", items |-> items]

\* relationships of the models: User.articles, User.profile (uselist=False), Article.author
RelationChoices ==
    { [key |-> "articles", direction |-> "ONETOMANY", uselist |-> TRUE],
      [key |-> "profile", direction |-> "ONETOMANY", uselist |-> FALSE],
      [key |-> "author", direction |-> "MANYTOONE", uselist |-> FALSE] }

\* query_info.load_only_child: True for MANYTOONE relationships
load_only_child(relation) == relation.direction = "MANYTOONE"

\* the table a one-to-many relation loads from: parent k has (k-1) mod (MaxChildren+1) rows
ChildCount(k) == (k - 1) % (MaxChildren + 1)

ChildRow(k, j) == [id |-> k * (MaxChildren + 1) + j, user_id |-> k, a |-> AVal(j)]

ChildrenOf(k) == {ChildRow(k, j) : j \in 1..ChildCount(k)}

\* the table a to-one relation loads from: no row has an id that MaxKey divides
TargetExists(k) == k % MaxKey # 0

TargetRow(k) == [id |-> k, user_id |-> None, a |-> AVal(k)]

\* the rows of the relation's table whose IN-expression column equals key
RelatedTable(relation, key) ==
    IF load_only_child(relation)
    THEN IF TargetExists(key) THEN {TargetRow(key)} ELSE {}
    ELSE ChildrenOf(key)

\* get_primary_key_tuple(source_mapper, state)
get_primary_key_tuple(state) == state.id

\* the related statement before pagination: prepare_query() adds
\* WHERE in_expr IN :primary_keys, the sort operation adds ORDER BY
RelatedStatement(query) == [order_by |-> query.sort, window |-> [on |-> FALSE]]

\* a variant whose upper row number forgets "skip"
SkipLimitOperation_apply_window_NoSkipInBound(op, query, stmt) ==
    IF ~Truthy(op.skip) /\ ~Truthy(op.limit) THEN stmt
    ELSE [stmt EXCEPT !.window =
            [on |-> TRUE, order_by |-> query.sort,
             gt |-> IF Truthy(op.skip) THEN op.skip ELSE None,
             le |-> IF Truthy(op.limit) THEN op.limit ELSE None]]

\* SkipLimitOperation._apply_window_over_foreign_key_pagination:
\* row_number() OVER (PARTITION BY fk ORDER BY sort), kept when > skip and <= skip + limit
SkipLimitOperation_apply_window(op, query, stmt) ==
    IF ~Truthy(op.skip) /\ ~Truthy(op.limit) THEN stmt
    ELSE [stmt EXCEPT !.window =
            [on |-> TRUE, order_by |-> query.sort,
             gt |-> IF Truthy(op.skip) THEN op.skip ELSE None,
             le |-> IF Truthy(op.limit)
                    THEN (IF Truthy(op.skip) THEN op.skip ELSE 0) + op.limit
                    ELSE None]]

\* connection.execute(q, {"primary_keys": ..}), the rows of one foreign key:
\* the statement's result is only consumed grouped by that key
ExecuteRelated(stmt, relation, primary_keys, key) ==
    IF key \notin primary_keys THEN <<>>
    ELSE IF ~stmt.window.on THEN Ordered(RelatedTable(relation, key), stmt.order_by)
    ELSE LET numbered == Ordered(RelatedTable(relation, key), stmt.window.order_by)
             lo == IF stmt.window.gt = None THEN 1 ELSE stmt.window.gt + 1
             hi == IF stmt.window.le = None THEN Len(numbered)
                   ELSE Min(Len(numbered), stmt.window.le)
         IN SubSeq(numbered, lo, hi)

\* the positions 1..n of a batch of n states
Positions(states) == [i \in 1..Len(states) |-> i]

\* sorted(keys), keys being positive integers
sorted(keys) ==
    LET top == IF keys = {} THEN 0 ELSE CHOOSE m \in keys : \A x \in keys : x <= m
        Member(i) == i \in keys
    IN SelectSeq([i \in 1..top |-> i], Member)

\* a variant that keeps one state per distinct primary key
prepare_states_DistinctKeys(relation, states) ==
    IF load_only_child(relation)
    THEN LET keys == {states[i].user_id : i \in 1..Len(states)} \ {None}
             HasNone(i) == states[i].user_id = None
         IN [our_states |-> [k \in keys |->
                                LET HasKey(i) == states[i].user_id = k
                                IN SelectSeq(Positions(states), HasKey)],
             none_states |-> SelectSeq(Positions(states), HasNone)]
    ELSE LET IsFirst(e) == \A j \in 1..(e[2] - 1) : get_primary_key_tuple(states[j]) # e[1]
         IN [our_states |-> SelectSeq([i \in 1..Len(states) |->
                                        <<get_primary_key_tuple(states[i]), i>>], IsFirst),
             none_states |-> <<>>]

\* JSelectInLoader.prepare_states: MANYTOONE collects the states by foreign key, and
\* those with a NULL foreign key apart; other relationships list (primary key, state)
prepare_states(relation, states) ==
    IF load_only_child(relation)
    THEN LET keys == {states[i].user_id : i \in 1..Len(states)} \ {None}
             HasNone(i) == states[i].user_id = None
         IN [our_states |-> [k \in keys |->
                                LET HasKey(i) == states[i].user_id = k
                                IN SelectSeq(Positions(states), HasKey)],
             none_states |-> SelectSeq(Positions(states), HasNone)]
    ELSE [our_states |-> [i \in 1..Len(states) |->
                            <<get_primary_key_tuple(states[i]), i>>],
          none_states |-> <<>>]

\* the statement a related executor builds: QueryExecutor._apply_operations_to_statement
RelatedQueryStatement(op, query) ==
    SkipLimitOperation_apply_window(op, query, RelatedStatement(query))

\* one pass of the loop of _load_via_parent over the states still to load
load_via_parent_chunk(relation, stmt, todo, populated_) ==
    LET chunk == SubSeq(todo, 1, Min(CHUNKSIZE, Len(todo)))
        primary_keys == [j \in 1..Len(chunk) |-> chunk[j][1]]
        keys == SeqToSet(primary_keys)
        data(key) == ExecuteRelated(stmt, relation, keys, key)
        collection(key) ==
            IF data(key) # <<>> THEN PyList(data(key))
            ELSE IF relation.uselist THEN PyList(<<>>) ELSE PyNone
        value(key) ==
            IF ~relation.uselist /\ data(key) # <<>>
            THEN PyRow(data(key)[1])
            ELSE collection(key)
        chunk_states == {chunk[j][2] : j \in 1..Len(chunk)}
    IN [todo |-> SubSeq(todo, Len(chunk) + 1, Len(todo)),
        primary_keys |-> primary_keys,
        populated |-> [i \in DOMAIN populated_ |->
                        IF i \in chunk_states
                        THEN value(chunk[CHOOSE j \in 1..Len(chunk) : chunk[j][2] = i][1])
                        ELSE populated_[i]],
        yielded |-> IF relation.uselist
                    THEN Cardinality({<<j, n>> \in (1..Len(chunk)) \X (1..MaxChildren) :
                                        n <= Len(data(chunk[j][1]))})
                    ELSE Len(chunk),
        items |-> IF relation.uselist
                  THEN {PyRow(data(chunk[j][1])[n]) :
                            <<j, n>> \in {<<j, n>> \in (1..Len(chunk)) \X (1..MaxChildren) :
                                            n <= Len(data(chunk[j][1]))}}
                  ELSE {collection(chunk[j][1]) : j \in 1..Len(chunk)}]

\* one pass of the loop of _load_via_child over the keys still to load
load_via_child_chunk(relation, stmt, our_states_, none_states_, todo, populated_) ==
    LET chunk == SubSeq(todo, 1, Min(CHUNKSIZE, Len(todo)))
        keys == SeqToSet(chunk)
        data(key) == ExecuteRelated(stmt, relation, keys, key)
        related_obj(key) == IF data(key) # <<>> THEN PyRow(data(key)[1]) ELSE PyNone
        value(key) ==
            IF ~relation.uselist THEN related_obj(key)
            ELSE PyList(<<related_obj(key)>>)
        keyed == UNION {SeqToSet(our_states_[k]) : k \in keys}
        none == SeqToSet(none_states_)
        key_of(i) == CHOOSE k \in keys : i \in SeqToSet(our_states_[k])
    IN [todo |-> SubSeq(todo, Len(chunk) + 1, Len(todo)),
        primary_keys |-> chunk,
        populated |-> [i \in DOMAIN populated_ |->
                        IF i \in none THEN PyNone
                        ELSE IF i \in keyed THEN value(key_of(i))
                        ELSE populated_[i]],
        yielded |-> Cardinality({k \in keys : data(k) # <<>>}),
        items |-> {PyRow(data(k)[1]) : k \in {k \in keys : data(k) # <<>>}}]

\* the batches of parent rows: every short batch, and long ones around the chunk size
KeyChoices(relation) ==
    (1..MaxKey) \cup (IF load_only_child(relation) THEN {None} ELSE {})

ShortBatches(relation) ==
    UNION {[1..n -> KeyChoices(relation)] : n \in 0..MaxParents}

LongBatches ==
    { [i \in 1..n |-> ((i - 1) % d) + 1] :
        n \in {CHUNKSIZE, CHUNKSIZE + 1, 2 * CHUNKSIZE + 1}, d \in {1, 2, CHUNKSIZE + 1} }

\* the rows of a batch: a MANYTOONE parent carries the key in its foreign key column
ParentRows(relation, keys) ==
    [i \in 1..Len(keys) |->
        IF load_only_child(relation) THEN [id |-> i, user_id |-> keys[i]]
        ELSE [id |-> keys[i], user_id |-> None]]

\* the Query Object of the relation
RelationSorts == { <<>>, <<Desc("id")>>, <<Asc("a")>> }

RelationQueries == [sort : RelationSorts, skip : OptSkips, limit : OptLimits]

LongBatchQueries ==
    { [sort |-> <<>>, skip |-> None, limit |-> None],
      [sort |-> <<Asc("a")>>, skip |-> 1, limit |-> 1] }

NoSettings == [default_limit |-> None, max_limit |-> None]

(***************************************************************************)
(* The tree of query executors (engine/query_executor.py).                 *)
(*                                                                         *)
(* An executor is named by the relation names that lead to it from the     *)
(* root; a list object is named by the executor whose __init__ created it. *)
(***************************************************************************)
\* a Query Object selects relations until its tree has MaxExecutors executors
MaxExecutors == 4

Models == {"User", "Article", "Comment"}

\* the relationships of the models, by name, and the model each points to
RelationshipsOf(Model) ==
    CASE Model = "User" -> {"articles", "comments"}
      [] Model = "Article" -> {"author", "comments"}
      [] Model = "Comment" -> {"article", "author"}

\* relation.property.mapper.class_
TargetModel(name) ==
    CASE name = "articles" -> "Article"
      [] name = "article" -> "Article"
      [] name = "comments" -> "Comment"
      [] name = "author" -> "User"

RECURSIVE QuerySize(_)
\* the number of executors a Query Object needs
QuerySize(query) ==
    IF query.relations = <<>> THEN 1
    ELSE QuerySize(Head(query.relations).query)
         + QuerySize([relations |-> Tail(query.relations)])

RECURSIVE JoinedQueries(_, _)
RECURSIVE SelectedRelations(_, _, _)
\* the Query Objects against Model that need at most budget executors
JoinedQueries(Model, budget) ==
    {[relations |-> r] : r \in SelectedRelations(Model, budget - 1, RelationshipsOf(Model))}

\* query.select.relations: selected relations, in the order the client lists them
SelectedRelations(Model, budget, names) ==
    {<<>>} \cup
    IF budget = 0 THEN {}
    ELSE UNION { UNION { { <<[name |-> n, query |-> q]>> \o rest :
                            rest \in SelectedRelations(Model, budget - QuerySize(q),
                                                       names \ {n}) } :
                         q \in JoinedQueries(TargetModel(n), budget) } :
                 n \in names }

\* QueryExecutor._for_relation, applied to the executor at self_at
QueryExecutor_for_relation(executors, self_at, source_executor, relation) ==
    [executors EXCEPT ![self_at] =
        [executors[self_at] EXCEPT
            !.load_path = source_executor.load_path
                          \o <<relation.name, executors[self_at].Model>>,
            !.loader = "RelatedQueryLoader",
            !.window_over_foreign_keys = TRUE,
            !.customize_statements = source_executor.customize_statements,
            !.customize_results = source_executor.customize_results]]

RECURSIVE QueryExecutor_init(_, _, _)
\* QueryExecutor.__init__: the executor at "at" and, below it, one executor per
\* selected relation, each constructed in full before its _for_relation(self) runs
QueryExecutor_init(query, Model, at) ==
    LET self == [Model |-> Model,
                 load_path |-> <<Model>>,
                 loader |-> "PrimaryQueryLoader",
                 window_over_foreign_keys |-> FALSE,
                 customize_statements |-> at,
                 customize_results |-> at,
                 related_executors |-> [i \in 1..Len(query.relations) |->
                                            query.relations[i].name]]
        related(i) ==
            LET relation == query.relations[i]
                child_at == Append(at, relation.name)
            IN QueryExecutor_for_relation(
                   QueryExecutor_init(relation.query, TargetModel(relation.name), child_at),
                   child_at, self, relation)
        below == UNION {DOMAIN related(i) : i \in 1..Len(query.relations)}
    IN [p \in {at} \cup below |->
            IF p = at THEN self
            ELSE related(CHOOSE i \in 1..Len(query.relations) : p \in DOMAIN related(i))[p]]

\* QueryExecutor.query_level
query_level(executor) == (Len(executor.load_path) - 1) \div 2

\* the number of statements a loader issues for n keys: one per chunk
ChunkCount(n) == (n + CHUNKSIZE - 1) \div CHUNKSIZE

\* the frame of one fetchall() call
Frame(at, source_count) ==
    [executor |-> at, step |-> "load_results", source_states |-> source_count,
     states |-> 0, relations |-> <<>>]

(***************************************************************************)
(* QueryPage (features/cursor): the executor whose SkipLimitOperation is   *)
(* CursorLimitOperation. Here the Query Object carries the cursor in       *)
(* "skip": SkipQuery keeps an integer in skip.skip, a cursor in skip.page. *)
(***************************************************************************)
\* the fields of features/cursor's cursor payloads
PageCursorFields(cls) ==
    IF cls = "skip" THEN {"skip", "limit"}
    ELSE {"skip", "limit", "cols", "op", "val"}

\* cursor_value_input(query): the cursor class and the decoded cursor
cursor_value_input(query) ==
    IF query.page = NoCursor THEN
        [exc |-> "none",
         cursor_type |-> IF KeysetCursor_pagination_possible(query) THEN "keys" ELSE "skip",
         cursor_value |-> NoValue]
    ELSE
        LET cls == get_cursor_impl_cls(query.page)
            raises == IF cls = "NotImplementedError" THEN cls
                      ELSE CursorData_decode_raises(query.page, PageCursorFields(cls))
        IN IF raises # "none" THEN [exc |-> raises]
           ELSE [exc |-> "none", cursor_type |-> cls,
                 cursor_value |-> [set |-> TRUE, data |-> query.page.data]]

\* CursorLimitOperation(query, Model, settings).for_query(executor)
CursorLimitOperation_for_query(query, settings) ==
    LET input == cursor_value_input(query) IN
    IF input.exc # "none" THEN [exc |-> "QueryObjectError"]
    ELSE [exc |-> "none", cls |-> "CursorLimitOperation",
          skip |-> query.skip, limit |-> get_final_limit(settings, query.limit),
          cursor_type |-> input.cursor_type, cursor_value |-> input.cursor_value,
          window |-> FALSE]

\* SkipLimitOperation(query, Model, settings).for_query(executor)
SkipLimitOperation_for_query(query, settings) ==
    [exc |-> "none", cls |-> "SkipLimitOperation",
     skip |-> query.skip, limit |-> get_final_limit(settings, query.limit),
     window |-> FALSE]

\* paginate_over_foreign_keys(relation.property.remote_side)
paginate_over_foreign_keys(op) == [op EXCEPT !.window = TRUE]

\* the statement of one level before pagination is applied to it
LevelStatement(query) ==
    [order_by |-> query.sort, where |-> [op |-> "true"],
     offset |-> None, limit |-> None, window |-> [on |-> FALSE]]

SkipLimitOperation_apply_simple(op, stmt) ==
    [stmt EXCEPT !.offset = IF Truthy(op.skip) THEN op.skip ELSE None,
                 !.limit = IF Truthy(op.limit) THEN op.limit ELSE None]

SkipLimitOperation_apply_to_statement(op, query, stmt) ==
    [exc |-> "none",
     stmt |-> IF op.window THEN SkipLimitOperation_apply_window(op, query, stmt)
              ELSE SkipLimitOperation_apply_simple(op, stmt)]

CursorLimitOperation_get_skip_limit(op) ==
    IF ~op.cursor_value.set
    THEN [skip |-> IF Truthy(op.skip) THEN op.skip ELSE 0,
          limit |-> IF Truthy(op.limit) THEN op.limit ELSE None]
    ELSE [skip |-> op.cursor_value.data.skip, limit |-> op.cursor_value.data.limit]

\* features/cursor/cursors: SkipCursor.apply_to_statement, KeysetCursor.apply_to_statement
PageCursor_apply_to_statement(op, query, stmt, skip, limit) ==
    IF op.cursor_type = "skip"
    THEN [exc |-> "none", stmt |-> [stmt EXCEPT !.offset = skip, !.limit = limit + 1]]
    ELSE IF ~op.cursor_value.set
    THEN [exc |-> "none", stmt |-> [stmt EXCEPT !.offset = skip, !.limit = limit + 1]]
    ELSE IF SeqToSet(op.cursor_value.data.cols) # SeqToSet(SortNames(query.sort))
    THEN [exc |-> "QueryObjectError"]
    ELSE [exc |-> "none",
          stmt |-> [stmt EXCEPT !.where = [op |-> op.cursor_value.data.op,
                                           cols |-> SortNames(query.sort),
                                           val |-> op.cursor_value.data.val],
                                !.limit = limit + 1]]

CursorLimitOperation_apply_cursor_pagination(op, query, stmt) ==
    LET sl == CursorLimitOperation_get_skip_limit(op) IN
    IF ~Truthy(sl.limit)
    THEN [exc |-> "none", stmt |-> SkipLimitOperation_apply_simple(op, stmt)]
    ELSE IF op.limit \notin {None, sl.limit}
    THEN [exc |-> "QueryObjectError"]
    ELSE PageCursor_apply_to_statement(op, query, stmt, sl.skip, sl.limit)

CursorLimitOperation_apply_to_statement(op, query, stmt) ==
    IF op.window THEN [exc |-> "RuntimeQueryError"]
    ELSE CursorLimitOperation_apply_cursor_pagination(op, query, stmt)

\* skiplimit_op.for_query / apply_to_statement of an executor of class cls
Executor_skiplimit_for_query(cls, query, settings) ==
    IF cls = "QueryPage" THEN CursorLimitOperation_for_query(query, settings)
    ELSE SkipLimitOperation_for_query(query, settings)

Executor_skiplimit_apply_to_statement(op, query, stmt) ==
    IF op.cls = "CursorLimitOperation"
    THEN CursorLimitOperation_apply_to_statement(op, query, stmt)
    ELSE SkipLimitOperation_apply_to_statement(op, query, stmt)

\* cursors of features/cursor, as page links hold them
PageCursorPool ==
    { encode_opaque_cursor("skip", [skip |-> 1, limit |-> 1]),
      encode_opaque_cursor("keys", [skip |-> 1, limit |-> 1, cols |-> <<"id">>,
                                    op |-> ">", val |-> <<1>>]) }

\* the pagination a Query Object asks for: none, skip/limit, or a cursor
PagingChoices ==
    [skip : {None, 1}, page : {NoCursor}, limit : {None, 1, 2}]
    \cup [skip : {None}, page : PageCursorPool, limit : {None, 1}]

NoJoin == [selected |-> FALSE]

\* join: {articles: {sort: [id], skip, limit}}, with a cursor in skip or not
JoinChoices ==
    {NoJoin} \cup
    { [selected |-> TRUE, select |-> {"id"}, sort |-> <<Asc("id")>>,
       skip |-> p.skip, page |-> p.page, limit |-> p.limit] : p \in PagingChoices }

PageQueries ==
    { [select |-> {"id", "a"}, sort |-> s, skip |-> p.skip, page |-> p.page,
       limit |-> p.limit, join |-> j] :
        s \in {<<>>, <<Asc("id")>>}, p \in PagingChoices, j \in JoinChoices }

(***************************************************************************)
(* fetchone() and fetchall() of one level (engine/query_executor.py). Rows *)
(* are dict objects: the heap holds their contents, lists hold references. *)
(***************************************************************************)
\* a row dict as the loader makes it
NewRow(id) == [id |-> id, related |-> 0, property |-> 0, customized |-> 0]

\* the callbacks a program may append to customize_results: one that changes
\* the row dicts it is given, one that returns a list of new row dicts
HandlerKinds == {"in_place", "replace"}

HandlerChoices ==
    {<<>>} \cup {<<h>> : h \in HandlerKinds}
    \cup {<<h1, h2>> : h1 \in HandlerKinds, h2 \in HandlerKinds}

\* rows = handler(self, rows)
ApplyHandler(handler, refs, heap) ==
    CASE handler = "in_place" ->
            [refs |-> refs,
             heap |-> [o \in 1..Len(heap) |->
                        IF o \in SeqToSet(refs)
                        THEN [heap[o] EXCEPT !.customized = @ + 1] ELSE heap[o]]]
      [] handler = "replace" ->
            [refs |-> [i \in 1..Len(refs) |-> Len(heap) + i],
             heap |-> heap \o [i \in 1..Len(refs) |->
                                [heap[refs[i]] EXCEPT !.customized = @ + 1]]]
      [] OTHER -> [refs |-> refs, heap |-> heap]

\* SelectOperation.apply_to_results: evaluates the selected @property fields
\* into the row dicts it is given
SelectOperation_apply_to_results(has_property, refs, heap) ==
    [refs |-> refs,
     heap |-> [o \in 1..Len(heap) |->
                IF has_property /\ o \in SeqToSet(refs)
                THEN [heap[o] EXCEPT !.property = 1] ELSE heap[o]]]

RECURSIVE ApplyHandlers(_, _, _)
ApplyHandlers(handlers, refs, heap) ==
    IF handlers = <<>> THEN [refs |-> refs, heap |-> heap]
    ELSE LET applied == ApplyHandler(Head(handlers), refs, heap)
         IN ApplyHandlers(Tail(handlers), applied.refs, applied.heap)

\* _apply_operations_to_results(rows): the operations, then every handler
apply_operations_to_results(has_property, handlers, refs, heap) ==
    LET applied == SelectOperation_apply_to_results(has_property, refs, heap)
    IN ApplyHandlers(handlers, applied.refs, applied.heap)

\* _load_relations(connection, states): the related loader puts the related
\* rows into every state it is given
load_relations(has_relation, refs, heap) ==
    [o \in 1..Len(heap) |->
        IF has_relation /\ o \in SeqToSet(refs)
        THEN [heap[o] EXCEPT !.related = 1] ELSE heap[o]]

\* the value a fetch returns: a row dict, a list of row dicts, or None
Contents(refs, heap) == [i \in 1..Len(refs) |-> heap[refs[i]]]

\* fetchall(connection) for a level of n rows
QueryExecutor_fetchall(n, has_relation, has_property, handlers) ==
    LET states == [i \in 1..n |-> i]
        loaded == load_relations(has_relation, states, [i \in 1..n |-> NewRow(i)])
        applied == apply_operations_to_results(has_property, handlers, states, loaded)
    IN [returned |-> PyList(Contents(applied.refs, applied.heap)),
        states |-> Contents(applied.refs, applied.heap)]

\* fetchone(connection) for a level of n rows
QueryExecutor_fetchone(n, has_relation, has_property, handlers) ==
    IF n = 0 THEN [returned |-> PyNone, states |-> <<>>]
    ELSE LET row == 1
             loaded == load_relations(has_relation, <<row>>, [i \in 1..n |-> NewRow(i)])
             applied == apply_operations_to_results(has_property, handlers, <<row>>, loaded)
         IN [returned |-> PyRow(applied.heap[row]),
             states |-> Contents(applied.refs, applied.heap)]

(***************************************************************************)
(* The Query Object dict and its parsed form (query_object/).  A JSON      *)
(* value is a record with one field that names its type; a dict is the     *)
(* sequence of its items in insertion order, with distinct keys.  Strings  *)
(* that the code takes apart (field names, sort strings, filter keys) are  *)
(* sequences of characters.                                                *)
(***************************************************************************)
JNull == [null |-> TRUE]

JInt(n) == [int |-> n]

JStr(s) == [str |-> s]

JList(xs) == [list |-> xs]

JDict(items) == [dict |-> items]

isinstance(v, type) == type \in DOMAIN v

Item(k, v) == [key |-> k, value |-> v]

dict_keys(items) == {items[i].key : i \in DOMAIN items}

dict_get(items, k) ==
    IF k \in dict_keys(items)
    THEN items[CHOOSE i \in DOMAIN items : items[i].key = k].value
    ELSE JNull

dict_set(items, k, v) ==
    IF k \in dict_keys(items)
    THEN [i \in DOMAIN items |-> IF items[i].key = k THEN Item(k, v) ELSE items[i]]
    ELSE Append(items, Item(k, v))

RECURSIVE dict_update(_, _)
dict_update(items, other) ==
    IF other = <<>> THEN items
    ELSE dict_update(dict_set(items, Head(other).key, Head(other).value), Tail(other))

\* `value or default`: None, 0, '', [] and {} are false
or_default(v, default) ==
    IF \/ v = JNull
       \/ v = JInt(0)
       \/ v = JStr(<<>>)
       \/ v = JList(<<>>)
       \/ v = JDict(<<>>)
    THEN default ELSE v

str_partition(s, sep) ==
    IF \E i \in DOMAIN s : s[i] = sep
    THEN LET i == CHOOSE i \in DOMAIN s : s[i] = sep /\ \A j \in 1..(i - 1) : s[j] # sep
         IN  <<SubSeq(s, 1, i - 1), <<sep>>, SubSeq(s, i + 1, Len(s))>>
    ELSE <<s, <<>>, <<>>>>

RECURSIVE str_split(_, _)
str_split(s, sep) ==
    LET p == str_partition(s, sep)
    IN  IF p[2] = <<>> THEN <<s>> ELSE <<p[1]>> \o str_split(p[3], sep)

RECURSIVE str_join(_, _)
str_join(sep, parts) ==
    IF parts = <<>> THEN <<>>
    ELSE IF Len(parts) = 1 THEN parts[1]
    ELSE parts[1] \o <<sep>> \o str_join(sep, Tail(parts))

str_startswith(s, c) == Len(s) > 0 /\ s[1] = c

\* sub_path None is <<>>: a sub_path is never an empty tuple, and every use is `if not sub_path`
parse_dot_notation(input) ==
    LET p == str_partition(input, ".")
    IN  [name |-> p[1],
         sub_path |-> IF p[3] # <<>> THEN str_split(p[3], ".") ELSE <<>>]

SortQuery_parse_input_field(field) ==
    LET end_c == IF Len(field) = 0 THEN "" ELSE field[Len(field)]
        signed == end_c = "-" \/ end_c = "+"
        parsed == parse_dot_notation(IF signed THEN SubSeq(field, 1, Len(field) - 1) ELSE field)
    IN  [name |-> parsed.name,
         direction |-> IF signed THEN end_c ELSE "+",
         sub_path |-> parsed.sub_path]

SortQuery_from_query_object(sort) ==
    [fields |-> [i \in DOMAIN sort.list |-> SortQuery_parse_input_field(sort.list[i].str)]]

field_expression(name, sub_path) ==
    IF sub_path = <<>> THEN name ELSE str_join(".", <<name>> \o sub_path)

SortingField_export(field) ==
    JStr(field_expression(field.name, field.sub_path) \o <<field.direction>>)

SortQuery_export(sort) ==
    JList([i \in DOMAIN sort.fields |-> SortingField_export(sort.fields[i])])

FilterQuery_parse_input_field_expressions(field_name, value) ==
    LET parsed == parse_dot_notation(field_name)
    IN  IF ~isinstance(value, "dict")
        THEN <<[field |-> parsed.name, sub_path |-> parsed.sub_path,
                operator |-> <<"$", "e", "q">>, value |-> value]>>
        ELSE [i \in DOMAIN value.dict |->
                [field |-> parsed.name, sub_path |-> parsed.sub_path,
                 operator |-> value.dict[i].key, value |-> value.dict[i].value]]

RECURSIVE FilterQuery_parse_input_fields(_)
RECURSIVE FilterQuery_parse_conditions(_)
FilterQuery_parse_input_boolean_expression(operator, conditions) ==
    [operator |-> operator,
     clauses  |-> FilterQuery_parse_conditions(
                    IF operator = <<"$", "n", "o", "t">> THEN <<conditions>> ELSE conditions.list)]

\* itertools.chain.from_iterable(cls._parse_input_fields(condition) for condition in conditions)
FilterQuery_parse_conditions(conditions) ==
    IF conditions = <<>> THEN <<>>
    ELSE FilterQuery_parse_input_fields(Head(conditions).dict)
            \o FilterQuery_parse_conditions(Tail(conditions))

FilterQuery_parse_input_fields(condition) ==
    IF condition = <<>> THEN <<>>
    ELSE LET key == Head(condition).key
             value == Head(condition).value
         IN  (IF str_startswith(key, "$")
              THEN <<FilterQuery_parse_input_boolean_expression(key, value)>>
              ELSE FilterQuery_parse_input_field_expressions(key, value))
             \o FilterQuery_parse_input_fields(Tail(condition))

FilterQuery_from_query_object(filter) ==
    [conditions |-> FilterQuery_parse_input_fields(filter.dict)]

RECURSIVE FilterExpression_export(_)
FieldFilterExpression_export(condition) ==
    <<Item(field_expression(condition.field, condition.sub_path),
           JDict(<<Item(condition.operator, condition.value)>>))>>

BooleanFilterExpression_export(condition) ==
    <<Item(condition.operator,
           JList([i \in DOMAIN condition.clauses |->
                    JDict(FilterExpression_export(condition.clauses[i]))]))>>

FilterExpression_export(condition) ==
    IF "clauses" \in DOMAIN condition
    THEN BooleanFilterExpression_export(condition)
    ELSE FieldFilterExpression_export(condition)

RECURSIVE FilterQuery_export_from(_, _)
FilterQuery_export_from(res, conditions) ==
    IF conditions = <<>> THEN res
    ELSE FilterQuery_export_from(dict_update(res, FilterExpression_export(Head(conditions))),
                                 Tail(conditions))

FilterQuery_export(filter) == JDict(FilterQuery_export_from(<<>>, filter.conditions))

\* pager.py: skip, limit (None or an int), before, after (None or a string) are kept as they are
PagerQuery_from_query_object(value) == value

PagerQuery_export(value) == value

RECURSIVE QueryObject_from_query_object(_)
RECURSIVE SelectQuery_relations(_)
\* {name: query} items of one dict of `select` or of `join`, parsed in order
SelectQuery_relations(items) ==
    IF items = <<>> THEN <<>>
    ELSE <<Item(Head(items).key, QueryObject_from_query_object(Head(items).value))>>
            \o SelectQuery_relations(Tail(items))

RECURSIVE SelectQuery_collect(_, _, _)
\* for field in (*select, join): a str is a field, a dict is a dict of relations
SelectQuery_collect(entries, fields, relations) ==
    IF entries = <<>> THEN [fields |-> fields, relations |-> relations]
    ELSE IF isinstance(Head(entries), "str")
         THEN SelectQuery_collect(Tail(entries),
                                  dict_set(fields, Head(entries).str, Head(entries).str),
                                  relations)
         ELSE SelectQuery_collect(Tail(entries), fields,
                                  dict_update(relations, SelectQuery_relations(Head(entries).dict)))

SelectQuery_from_query_object(select, join) ==
    SelectQuery_collect(select.list \o <<join>>, <<>>, <<>>)

QueryObject_from_query_object(query_object) ==
    [select |-> SelectQuery_from_query_object(
                    or_default(dict_get(query_object.dict, "select"), JList(<<>>)),
                    or_default(dict_get(query_object.dict, "join"), JDict(<<>>))),
     filter |-> FilterQuery_from_query_object(
                    or_default(dict_get(query_object.dict, "filter"), JDict(<<>>))),
     sort   |-> SortQuery_from_query_object(
                    or_default(dict_get(query_object.dict, "sort"), JList(<<>>))),
     skip   |-> PagerQuery_from_query_object(dict_get(query_object.dict, "skip")),
     limit  |-> PagerQuery_from_query_object(dict_get(query_object.dict, "limit")),
     before |-> PagerQuery_from_query_object(dict_get(query_object.dict, "before")),
     after  |-> PagerQuery_from_query_object(dict_get(query_object.dict, "after"))]

SelectQuery_export_select(select) ==
    JList([i \in DOMAIN select.fields |-> JStr(select.fields[i].key)])

RECURSIVE QueryObject_dict(_)
SelectQuery_export_join(select) ==
    JDict([i \in DOMAIN select.relations |->
            Item(select.relations[i].key, QueryObject_dict(select.relations[i].value))])

QueryObject_dict(query) ==
    JDict(<<Item("select", SelectQuery_export_select(query.select)),
            Item("join", SelectQuery_export_join(query.select)),
            Item("filter", FilterQuery_export(query.filter)),
            Item("sort", SortQuery_export(query.sort)),
            Item("skip", PagerQuery_export(query.skip)),
            Item("limit", PagerQuery_export(query.limit)),
            Item("before", PagerQuery_export(query.before)),
            Item("after", PagerQuery_export(query.after))>>)

\* dict == dict: the same keys with equal values, whatever the order of the items
RECURSIVE Canon(_)
Canon(v) ==
    IF isinstance(v, "dict")
    THEN [dict |-> [k \in dict_keys(v.dict) |-> Canon(dict_get(v.dict, k))]]
    ELSE IF isinstance(v, "list")
    THEN [list |-> [i \in DOMAIN v.list |-> Canon(v.list[i])]]
    ELSE v

json_eq(a, b) == Canon(a) = Canon(b)

\* Query Object dicts in the documented shapes; every key is optional
DocSelect ==
    {<<>>,
     <<Item("select", JList(<<JStr(<<"a">>)>>))>>,
     <<Item("select", JList(<<JStr(<<"a">>), JStr(<<"b">>)>>))>>,
     <<Item("select", JList(<<JStr(<<"a">>),
                              JDict(<<Item(<<"r">>,
                                           JDict(<<Item("select", JList(<<JStr(<<"b">>)>>))>>))>>)>>))>>}

DocJoin ==
    {<<>>,
     <<Item("join", JDict(<<>>))>>,
     <<Item("join", JDict(<<Item(<<"r">>,
                                 JDict(<<Item("sort", JList(<<JStr(<<"b", "-">>)>>))>>))>>))>>}

Op_eq == <<"$", "e", "q">>

Op_gt == <<"$", "g", "t">>

Op_lt == <<"$", "l", "t">>

DocFilter ==
    {<<>>,
     <<Item("filter", JDict(<<Item(<<"a">>, JInt(1))>>))>>,
     <<Item("filter", JDict(<<Item(<<"a">>, JDict(<<Item(Op_eq, JInt(1))>>))>>))>>,
     <<Item("filter", JDict(<<Item(<<"a">>, JDict(<<Item(Op_gt, JInt(1)), Item(Op_lt, JInt(2))>>))>>))>>,
     <<Item("filter", JDict(<<Item(<<"j", ".", "x">>, JDict(<<Item(Op_eq, JInt(1))>>))>>))>>,
     <<Item("filter", JDict(<<Item(<<"$", "o", "r">>,
                                   JList(<<JDict(<<Item(<<"a">>, JDict(<<Item(Op_eq, JInt(1))>>))>>),
                                           JDict(<<Item(<<"b">>, JDict(<<Item(Op_eq, JInt(2))>>))>>)>>))>>))>>,
     <<Item("filter", JDict(<<Item(<<"$", "a", "n", "d">>,
                                   JList(<<JDict(<<Item(<<"a">>, JDict(<<Item(Op_eq, JInt(1))>>)),
                                                   Item(<<"b">>, JDict(<<Item(Op_eq, JInt(2))>>))>>)>>))>>))>>,
     <<Item("filter", JDict(<<Item(<<"$", "n", "o", "t">>,
                                   JDict(<<Item(<<"a">>, JDict(<<Item(Op_eq, JInt(1))>>))>>))>>))>>}

DocSort ==
    {<<>>,
     <<Item("sort", JList(<<JStr(<<"a">>)>>))>>,
     <<Item("sort", JList(<<JStr(<<"a", "+">>)>>))>>,
     <<Item("sort", JList(<<JStr(<<"a", "-">>)>>))>>,
     <<Item("sort", JList(<<JStr(<<"j", ".", "x", "-">>)>>))>>,
     <<Item("sort", JList(<<JStr(<<"a", "+">>), JStr(<<"b", "-">>)>>))>>}

DocSkip == {<<>>, <<Item("skip", JInt(0))>>, <<Item("skip", JInt(1))>>}

DocLimit == {<<>>, <<Item("limit", JInt(1))>>}

DocBefore == {<<>>, <<Item("before", JStr(<<"c">>))>>}

DocAfter == {<<>>, <<Item("after", JStr(<<"c">>))>>}

\* before and after exclude each other and skip
QueryObjectDicts ==
    {JDict(select \o join \o filter \o sort \o skip \o limit \o before \o after) :
        select \in DocSelect, join \in DocJoin, filter \in DocFilter, sort \in DocSort,
        skip \in DocSkip, limit \in DocLimit, before \in DocBefore, after \in DocAfter}

(***************************************************************************)
(* Rewriter (query_object/rewrite): a chain of rules renames the fields of *)
(* a QueryObject.  The outcome of a rule is a name, None, or one of the    *)
(* exceptions SkipField and UnknownFieldError.  A QueryObject carries the  *)
(* identity of the Python object in `id`: two records with one id are one  *)
(* object.                                                                 *)
(***************************************************************************)
Answer(name) == [kind |-> "name", name |-> name]

Declined == [kind |-> "None", name |-> <<>>]

Raised(exception) == [kind |-> exception, name |-> <<>>]

Rename(renames) == [rule |-> "Rename", map |-> renames, names |-> {}]

KeepName(names) == [rule |-> "KeepName", map |-> <<>>, names |-> names]

Skip == [rule |-> "Skip", map |-> <<>>, names |-> {}]

Ignore == [rule |-> "Ignore", map |-> <<>>, names |-> {}]

Fail == [rule |-> "Fail", map |-> <<>>, names |-> {}]

Rule_api_to_db_FailDeclines(rule, name) ==
    CASE rule.rule = "Rename" ->
            IF name \in dict_keys(rule.map) THEN Answer(dict_get(rule.map, name)) ELSE Declined
      [] rule.rule = "KeepName" ->
            IF name \in rule.names THEN Answer(name) ELSE Declined
      [] rule.rule = "Skip" -> Raised("SkipField")
      [] rule.rule = "Ignore" -> Declined
      [] rule.rule = "Fail" -> Declined

Rule_api_to_db(rule, name) ==
    CASE rule.rule = "Rename" ->
            IF name \in dict_keys(rule.map) THEN Answer(dict_get(rule.map, name)) ELSE Declined
      [] rule.rule = "KeepName" ->
            IF name \in rule.names THEN Answer(name) ELSE Declined
      [] rule.rule = "Skip" -> Raised("SkipField")
      [] rule.rule = "Ignore" -> Declined
      [] rule.rule = "Fail" -> Raised("UnknownFieldError")

RECURSIVE evaluate_rules(_, _)
evaluate_rules(rules, name) ==
    IF rules = <<>> THEN Declined
    ELSE LET result == Rule_api_to_db(Head(rules), name)
         IN  IF result.kind = "SkipField" THEN Declined
             ELSE IF result.kind = "None" THEN evaluate_rules(Tail(rules), name)
             ELSE result

Rewriter_api_to_db_PassThrough(rewriter, name) ==
    LET result == evaluate_rules(rewriter.rules, name)
    IN  IF result.kind = "None" THEN Answer(name) ELSE result

Rewriter_api_to_db(rewriter, name) == evaluate_rules(rewriter.rules, name)

\* set_relation_rewriter(relation_name) registers the rewriter itself for the
\* relation, or for every relation under the key None; no settings are linked
AllRelations == <<"N", "o", "n", "e">>

Rewriter_for_relation(rewriter, relation_name) ==
    \/ relation_name \in rewriter.relation_rewriters
    \/ AllRelations \in rewriter.relation_rewriters

AnyRaised(results) == \E i \in DOMAIN results : results[i].kind = "UnknownFieldError"

\* if new_name: None and '' are dropped
rename_select_fields(fields, rewriter) ==
    LET results == [i \in DOMAIN fields |-> Rewriter_api_to_db(rewriter, fields[i].key)]
    IN  [exc |-> AnyRaised(results),
         fields |-> SelectSeq(results, LAMBDA r : r.kind = "name" /\ r.name # <<>>)]

RECURSIVE Rewriter_query_object(_, _, _)
RECURSIVE rename_select_relations(_, _, _)
rename_select_relations(relations, rewriter, new_id) ==
    IF relations = <<>> THEN [exc |-> FALSE, relations |-> <<>>]
    ELSE LET relation == Head(relations)
             new_name == Rewriter_api_to_db(rewriter, relation.key)
             rest == rename_select_relations(Tail(relations), rewriter, new_id + 1)
             nested == IF Rewriter_for_relation(rewriter, new_name.name)
                       THEN Rewriter_query_object(rewriter, relation.value, new_id)
                       ELSE relation.value
         IN  IF new_name.kind = "UnknownFieldError" THEN [exc |-> TRUE, relations |-> <<>>]
             ELSE IF new_name.kind = "name" /\ new_name.name # <<>>
             THEN IF "exc" \in DOMAIN nested \/ rest.exc
                  THEN [exc |-> TRUE, relations |-> <<>>]
                  ELSE [exc |-> FALSE,
                        relations |-> <<Item(new_name.name, nested)>> \o rest.relations]
             ELSE rest

\* if new_name is not None: only None is dropped; the sub_path is kept as it is
RECURSIVE rename_sort_fields(_, _)
rename_sort_fields(fields, rewriter) ==
    IF fields = <<>> THEN [exc |-> FALSE, fields |-> <<>>]
    ELSE LET field == Head(fields)
             new_name == Rewriter_api_to_db(rewriter, field.name)
             rest == rename_sort_fields(Tail(fields), rewriter)
         IN  [exc |-> new_name.kind = "UnknownFieldError" \/ rest.exc,
              fields |-> (IF new_name.kind = "name"
                          THEN <<[field EXCEPT !.name = new_name.name]>>
                          ELSE <<>>) \o rest.fields]

RECURSIVE rename_filter_conditions(_, _)
rename_filter_conditions(conditions, rewriter) ==
    IF conditions = <<>> THEN [exc |-> FALSE, conditions |-> <<>>]
    ELSE LET condition == Head(conditions)
             rest == rename_filter_conditions(Tail(conditions), rewriter)
         IN  IF "clauses" \in DOMAIN condition
             THEN LET clauses == rename_filter_conditions(condition.clauses, rewriter)
                  IN  [exc |-> clauses.exc \/ rest.exc,
                       conditions |-> <<[condition EXCEPT !.clauses = clauses.conditions]>>
                                        \o rest.conditions]
             ELSE LET new_name == Rewriter_api_to_db(rewriter, condition.field)
                  IN  [exc |-> new_name.kind = "UnknownFieldError" \/ rest.exc,
                       conditions |-> (IF new_name.kind = "name"
                                       THEN <<[condition EXCEPT !.field = new_name.name]>>
                                       ELSE <<>>) \o rest.conditions]

\* SelectQuery.__init__: {field.name: field for field in fields}
RECURSIVE dict_of_names(_, _)
dict_of_names(res, results) ==
    IF results = <<>> THEN res
    ELSE dict_of_names(dict_set(res, Head(results).name, Head(results).name), Tail(results))

\* Rewriter.query_object: a new QueryObject, whose id is new_id, or the exception
Rewriter_query_object(rewriter, query, new_id) ==
    LET fields == rename_select_fields(query.select.fields, rewriter)
        relations == rename_select_relations(query.select.relations, rewriter, new_id + 1)
        filter == rename_filter_conditions(query.filter.conditions, rewriter)
        sort == rename_sort_fields(query.sort.fields, rewriter)
    IN  IF fields.exc \/ relations.exc \/ filter.exc \/ sort.exc
        THEN [exc |-> "UnknownFieldError"]
        ELSE [id |-> new_id,
              select |-> [fields |-> dict_of_names(<<>>, fields.fields),
                          relations |-> dict_update(<<>>, relations.relations)],
              filter |-> [conditions |-> filter.conditions],
              sort |-> [fields |-> sort.fields],
              skip |-> query.skip,
              limit |-> query.limit,
              before |-> query.before,
              after |-> query.after]

\* the QueryObject built by from_query_object, with the identities of its objects
RECURSIVE WithIds(_, _)
WithIds(query, id) ==
    [id |-> id,
     select |-> [fields |-> query.select.fields,
                 relations |-> [i \in DOMAIN query.select.relations |->
                                  Item(query.select.relations[i].key,
                                       WithIds(query.select.relations[i].value, id + i))]],
     filter |-> query.filter,
     sort |-> query.sort,
     skip |-> query.skip,
     limit |-> query.limit,
     before |-> query.before,
     after |-> query.after]

\* the QueryObject and the nested ones of its relations
RECURSIVE QueryObjects(_)
QueryObjects(query) ==
    {query} \cup UNION {QueryObjects(query.select.relations[i].value) :
                            i \in DOMAIN query.select.relations}

\* QueryExecutor.__init__ resolves its query in place, and so does the executor
\* of every relation with the relation's query
resolved_by_executor(query) == {q.id : q \in QueryObjects(query)}

\* a Rewriter has at most MaxRules rules
MaxRules == 3

\* the rules of the chains, and the Query Object dicts they rewrite
RulePool ==
    {Rename(<<Item(<<"a">>, <<"x">>), Item(<<"r">>, <<"r">>)>>),
     KeepName({<<"b">>}),
     Skip, Ignore, Fail}

RuleChains == UNION {[1..n -> RulePool] : n \in 0..MaxRules}

RelationRewriters == {{}, {<<"r">>}, {AllRelations}}

Rewriters ==
    {[rules |-> rules, relation_rewriters |-> relation_rewriters] :
        rules \in RuleChains, relation_rewriters \in RelationRewriters}

RewrittenDicts ==
    {JDict(<<Item("select", JList(<<JStr(<<"a">>), JStr(<<"u">>)>>))>>),
     JDict(<<Item("select", JList(<<JStr(<<"u">>)>>)),
             Item("filter", JDict(<<Item(<<"$", "o", "r">>,
                                         JList(<<JDict(<<Item(<<"u">>, JInt(1))>>),
                                                 JDict(<<Item(<<"a">>, JInt(1))>>)>>))>>))>>),
     JDict(<<Item("select", JList(<<JStr(<<"a">>), JStr(<<"b">>), JStr(<<"u">>)>>)),
             Item("filter", JDict(<<Item(<<"u">>, JInt(1)),
                                    Item(<<"a">>, JDict(<<Item(Op_gt, JInt(1))>>))>>)),
             Item("sort", JList(<<JStr(<<"u", "-">>), JStr(<<"a">>)>>))>>),
     JDict(<<Item("select", JList(<<JStr(<<"a">>)>>)),
             Item("join", JDict(<<Item(<<"r">>,
                                       JDict(<<Item("select", JList(<<JStr(<<"a">>), JStr(<<"u">>)>>))>>))>>))>>),
     JDict(<<Item("select", JList(<<JStr(<<"b">>)>>)),
             Item("sort", JList(<<JStr(<<"b", "+">>)>>)),
             Item("limit", JInt(1))>>)}

OriginalId == 1

RewrittenId == 11

(***************************************************************************)
(* RewriteSAModel (query_object/rewrite/rewrite_sa.py): a Rewriter that    *)
(* knows the relationships of a model.  The loop over select.relations     *)
(* pops from the dict it iterates; CPython's dict iterator compares the    *)
(* size of the dict with the size it started with at every step, the step  *)
(* that ends the loop included, and raises RuntimeError when they differ.  *)
(***************************************************************************)
RECURSIVE RewriteSAModel_move_loop(_, _, _, _, _)
\* `names` are the keys the iterator has not reached yet, `size` the size at the start
RewriteSAModel_move_loop(names, size, relations, fields, mapper_relationships) ==
    IF Len(relations) # size THEN [exc |-> "RuntimeError"]
    ELSE IF names = <<>> THEN [fields |-> fields, relations |-> relations]
    ELSE IF Head(names) \notin mapper_relationships
         THEN RewriteSAModel_move_loop(
                Tail(names), size,
                SelectSeq(relations, LAMBDA item : item.key # Head(names)),
                dict_set(fields, Head(names), Head(names)),
                mapper_relationships)
         ELSE RewriteSAModel_move_loop(Tail(names), size, relations, fields, mapper_relationships)

RewriteSAModel_rewrite_query_object_select(select, mapper_relationships) ==
    RewriteSAModel_move_loop(
        [i \in DOMAIN select.relations |-> select.relations[i].key],
        Len(select.relations), select.relations, select.fields, mapper_relationships)

RewriteSAModel_query_object(rewriter, query, new_id) ==
    LET rewritten == Rewriter_query_object(rewriter, query, new_id)
        select == RewriteSAModel_rewrite_query_object_select(rewritten.select,
                                                             rewriter.mapper_relationships)
    IN  IF "exc" \in DOMAIN rewritten THEN rewritten
        ELSE IF "exc" \in DOMAIN select THEN select
        ELSE [rewritten EXCEPT !.select = select]

\* the model has the column a, the JSON columns j and k, and the relationship r
SAModelRelationships == {<<"r">>}

SAModelRewriters ==
    {[rules |-> rules, relation_rewriters |-> {}, mapper_relationships |-> SAModelRelationships] :
        rules \in {<<KeepName({<<"a">>, <<"j">>, <<"k">>, <<"r">>})>>,
                   <<Rename(<<Item(<<"a">>, <<"x">>)>>),
                     KeepName({<<"j">>, <<"k">>, <<"r">>})>>,
                   <<Rename(<<Item(<<"a">>, <<"x">>)>>),
                     KeepName({<<"j">>, <<"k">>, <<"r">>}), Ignore>>,
                   <<KeepName({<<"a">>, <<"j">>, <<"r">>}), Skip>>}}

NestedDict == JDict(<<Item("select", JList(<<JStr(<<"a">>)>>))>>)

SAModelJoins ==
    {<<>>,
     <<Item(<<"r">>, NestedDict)>>,
     <<Item(<<"j">>, NestedDict)>>,
     <<Item(<<"r">>, NestedDict), Item(<<"j">>, NestedDict)>>,
     <<Item(<<"j">>, NestedDict), Item(<<"r">>, NestedDict)>>,
     <<Item(<<"j">>, NestedDict), Item(<<"k">>, NestedDict)>>,
     <<Item(<<"j">>, NestedDict), Item(<<"r">>, NestedDict), Item(<<"k">>, NestedDict)>>}

SAModelDicts ==
    {JDict(<<Item("select", JList(select)), Item("join", JDict(join))>>) :
        select \in {<<>>, <<JStr(<<"a">>)>>, <<JStr(<<"a">>), JStr(<<"j">>)>>, <<JStr(<<"k">>)>>},
        join \in SAModelJoins}

(***************************************************************************)
(* QuerySettings and its Rewriter (engine/settings.py).  `linked` maps     *)
(* every Rewriter to the QuerySettings in its `settings` attribute, or to  *)
(* None; a QuerySettings is named by the order of its construction.        *)
(***************************************************************************)
\* QuerySettings are constructed MaxSettings times, with one of MaxRewriters Rewriters
MaxSettings == 3

MaxRewriters == 3

QuerySettings_post_init_Relinks(self, rewriter, linked) ==
    IF rewriter # None
    THEN [raised |-> "none", linked |-> [linked EXCEPT ![rewriter] = self]]
    ELSE [raised |-> "none", linked |-> linked]

QuerySettings_post_init(self, rewriter, linked) ==
    IF rewriter # None
    THEN IF linked[rewriter] # None
         THEN [raised |-> "AssertionError", linked |-> linked]
         ELSE [raised |-> "none", linked |-> [linked EXCEPT ![rewriter] = self]]
    ELSE [raised |-> "none", linked |-> linked]

(***************************************************************************)
(* The FastAPI dependency query_object() (integration/fastapi).  A         *)
(* parameter is JNull when the request does not carry it, [text |-> s] for *)
(* a string and JInt(n) for an integer.                                    *)
(***************************************************************************)
Text(s) == [text |-> s]

Malformed == [malformed |-> TRUE]

\* yaml.load(value, Loader=yaml.SafeLoader) and json.loads(value) of the texts of the model
parse_yaml_argument(value) ==
    CASE value = JNull -> JNull
      [] value = Text("") -> JNull
      [] value = Text("[\"a\"]") -> JList(<<JStr(<<"a">>)>>)
      [] value = Text("[a, b]") -> JList(<<JStr(<<"a">>), JStr(<<"b">>)>>)
      [] value = Text("[a") -> Malformed
      [] value = Text("{\"r\": {\"select\": [\"b\"]}}") ->
            JDict(<<Item(<<"r">>, JDict(<<Item("select", JList(<<JStr(<<"b">>)>>))>>))>>)
      [] value = Text("{\"a\": {\"$gt\": 1}}") ->
            JDict(<<Item(<<"a">>, JDict(<<Item(Op_gt, JInt(1))>>))>>)
      [] value = Text("[\"a-\"]") -> JList(<<JStr(<<"a", "-">>)>>)

parse_json_argument(value) ==
    IF value \in {Text(""), Text("[a, b]")} THEN Malformed ELSE parse_yaml_argument(value)

parse_serialized_argument(yaml, value) ==
    IF yaml THEN parse_yaml_argument(value) ELSE parse_json_argument(value)

\* `not value`
falsy(value) == value \in {JNull, Text(""), JInt(0)}

fastapi_query_object(yaml, params) ==
    IF falsy(params.select) /\ falsy(params.filter) /\ falsy(params.sort)
        /\ falsy(params.skip) /\ falsy(params.limit)
    THEN [returned |-> "None"]
    ELSE LET select == parse_serialized_argument(yaml, params.select)
             filter == parse_serialized_argument(yaml, params.filter)
             sort == parse_serialized_argument(yaml, params.sort)
         IN  IF Malformed \in {select, filter, sort}
             THEN [exc |-> "QueryObjectError"]
             ELSE [returned |-> "QueryObject",
                   query |-> QueryObject_from_query_object(
                                JDict(<<Item("select", select), Item("filter", filter),
                                        Item("sort", sort), Item("skip", params.skip),
                                        Item("limit", params.limit)>>))]

RequestParameters ==
    [select : {JNull, Text(""), Text("[\"a\"]"), Text("[a, b]"), Text("[a")},
     join   : {JNull, Text("{\"r\": {\"select\": [\"b\"]}}")},
     filter : {JNull, Text("{\"a\": {\"$gt\": 1}}")},
     sort   : {JNull, Text("[\"a-\"]")},
     skip   : {JNull, JInt(0), JInt(1)},
     limit  : {JNull, JInt(0), JInt(2)}]

(***************************************************************************)
(* The first requests of a client that walks the pages of keyset           *)
(* pagination                                                              *)
(***************************************************************************)
KeysetRequests ==
    { q \in PlainRequests :
        /\ KeysetCursor_pagination_possible(q)
        /\ q.skip = None
        /\ q.limit # 0 }

(***************************************************************************)
(* fetchall() of a QueryPage without relations: the statement, its rows,   *)
(* and inspect_data_rows of features/cursor/cursors                        *)
(***************************************************************************)
\* connection.execute(stmt) for the statement of a level: no OFFSET is offset 0
ExecuteLevel(stmt, total) ==
    Execute([stmt EXCEPT !.offset = IF stmt.offset = None THEN 0 ELSE stmt.offset], total)

\* SkipCursor.inspect_data_rows and KeysetCursor.inspect_data_rows as far as
\* the rows go: the rows after the in-place pop()
PageCursor_inspect_data_rows(op, query, rows) ==
    LET limit == IF op.cursor_value.set THEN op.cursor_value.data.limit ELSE query.limit
    IN IF limit = None \/ (op.cursor_type = "keys" /\ rows = <<>>)
       THEN [exc |-> "none", rows |-> rows, has_next_page |-> FALSE]
       ELSE IF op.cursor_type = "keys"
               /\ ~(SeqToSet(SortNames(query.sort)) \subseteq RowKeys(query))
       THEN [exc |-> "KeyError"]
       ELSE LET has_next_page == Len(rows) = limit + 1 IN
            [exc |-> "none",
             rows |-> IF has_next_page THEN SubSeq(rows, 1, Len(rows) - 1) ELSE rows,
             has_next_page |-> has_next_page]

TopLevelPageQueries == { q \in PageQueries : q.join = NoJoin }

(***************************************************************************)
(* Resolution of a Query Object (query_object/resolve.py) and compilation  *)
(* of its filter (operations/filter.py).  A level of the Query Object has  *)
(* a filter of field conditions and at most one relation with a level of   *)
(* its own.  Every model has the columns id, a and the array column tags.  *)
(***************************************************************************)
ModelColumns == {"id", "a", "tags"}

is_array(name) == name = "tags"

SCALAR_OPERATORS ==
    {"$eq", "$ne", "$lt", "$lte", "$gt", "$gte", "$prefix", "$in", "$nin", "$exists"}

ARRAY_OPERATORS == {"$eq", "$ne", "$in", "$nin", "$exists", "$all", "$size"}

ARRAY_OPERATORS_WITH_ARRAY_ARGUMENT == {"$all", "$in", "$nin"}

NoRelation == [selected |-> FALSE]

\* resolve_query_object(query, Model): the selected relation, then the filter
resolve_query_object(level) ==
    IF level.relation.selected /\ level.relation.name \notin RelationshipsOf("User")
    THEN "InvalidRelationError"
    ELSE IF \E i \in 1..Len(level.filter) : level.filter[i].field \notin ModelColumns
    THEN "InvalidColumnError"
    ELSE "none"

\* use_operator for one condition: _validate_operator_argument, then
\* _get_operator_lambda
FilterOperation_use_operator(condition) ==
    IF condition.operator \in ARRAY_OPERATORS_WITH_ARRAY_ARGUMENT
        /\ ~condition.value_is_array
    THEN "QueryObjectError"
    ELSE IF is_array(condition.field) /\ condition.operator \notin ARRAY_OPERATORS
    THEN "QueryObjectError"
    ELSE IF ~is_array(condition.field) /\ condition.operator \notin SCALAR_OPERATORS
    THEN "QueryObjectError"
    ELSE "none"

\* FilterOperation.apply_to_statement: compiles every condition of the level
FilterOperation_apply_to_statement(level) ==
    IF \E i \in 1..Len(level.filter) : FilterOperation_use_operator(level.filter[i]) # "none"
    THEN "QueryObjectError"
    ELSE "none"

\* {field: {operator: value}}
FieldConditions ==
    [field : {"a", "tags", "nope"}, operator : {"$eq", "$in", "$size", "$regex"},
     value_is_array : BOOLEAN]

FilterChoices == {<<>>} \cup {<<c>> : c \in FieldConditions}

\* the Query Objects of a request: a filter, and a join with a filter or none
FilteredQueries ==
    [filter : FilterChoices, relation : {NoRelation}]
    \cup [filter : {<<>>, <<[field |-> "a", operator |-> "$eq", value_is_array |-> FALSE]>>},
          relation : [selected : {TRUE}, name : {"articles", "nope"},
                      query : [filter : FilterChoices, relation : {NoRelation}]]]

(***************************************************************************)
(* State: one client paginating one table (first block), one related       *)
(* executor loading a relation for a batch of parent rows (second block),  *)
(* the executor tree of one Query (third block)                            *)
(***************************************************************************)
VARIABLES
    total,      \* number of rows in the table
    settings,   \* the QuerySettings of the endpoint
    query,      \* the Query Object of the current Query
    pager,      \* Query.pager_op: the BeforeAfterOperation with its cursor_impl
    rows,       \* the rows the last fetchall() returned
    links,      \* the PageLinks the last page_links() returned
    raised,     \* the exception the last call raised, or "none"
    pc,         \* "new", "ready", "fetched", "linked", "failed"
    first,      \* the Query Object of the first request
    visited,    \* the ids of all rows returned so far, page after page
    faithful    \* every follow-up repeated the first request, with only the cursor set

pagevars == <<total, settings, query, pager, rows, links, raised, pc, first, visited, faithful>>

VARIABLES
    relation_property,  \* the relationship that is loaded
    relation_query,     \* the Query Object of the relation
    skiplimit_op,       \* the executor's SkipLimitOperation, in window mode
    source_states,      \* the parent rows handed to for_states()
    our_states,         \* JSelectInLoader.our_states
    none_states,        \* JSelectInLoader.none_states
    pending,            \* what the loader's loop has still to load
    populated,          \* per parent row, the value under the relation's key
    statements,         \* the primary_keys of every statement executed
    nyielded,           \* number of objects the loader has yielded
    yielded_items,      \* the objects the loader has yielded, as a set
    lpc                 \* "constructed", "prepared", "loading", "done"

loadvars == <<relation_property, relation_query, skiplimit_op, source_states, our_states,
              none_states, pending, populated, statements, nyielded,
              yielded_items, lpc>>

VARIABLES
    root_model,     \* the Model the Query is made against
    query_object,   \* the Query Object: the relations it selects, nested
    executors,      \* the QueryExecutor objects, by their place in the tree
    lists,          \* the contents of the customize_* list objects
    stack,          \* the frames of the fetchall() calls in progress, innermost first
    log,            \* statements built and executed, result sets handled, in order
    tpc             \* "new", "constructed", "fetching", "fetched"

treevars == <<root_model, query_object, executors, lists, stack, log, tpc>>

VARIABLES
    nest_cls,       \* the class of the Query: "Query" or "QueryPage"
    nest_query,     \* its Query Object, with at most one relation joined
    nest_ops,       \* the skiplimit_op of the root executor and of the related one
    nest_stmts,     \* the statements built so far, root first
    nest_raised,    \* the exception raised, or "none"
    npc             \* "new", "constructed", "primary", "done", "failed"

nestvars == <<nest_cls, nest_query, nest_ops, nest_stmts, nest_raised, npc>>

VARIABLES
    one_count,      \* the number of rows the level's statement returns
    one_relation,   \* whether the Query Object selects a relation
    one_property,   \* whether the Query Object selects a @property
    one_handlers,   \* the callbacks appended to customize_results
    one_returned,   \* what the fetch returned
    one_states,     \* what _apply_operations_to_results returned to the fetch
    opc             \* "new", "fetchall", "fetchone"

onevars == <<one_count, one_relation, one_property, one_handlers, one_returned,
             one_states, opc>>

(***************************************************************************)
(* State: one Query Object dict, parsed and exported again                 *)
(***************************************************************************)
VARIABLES
    dict_input,     \* the Query Object dict given by the client
    dict_query,     \* QueryObject.from_query_object(dict_input), or None
    dict_output,    \* dict_query.dict(), or None
    dpc             \* "input" -> "parsed" -> "exported"

dictvars == <<dict_input, dict_query, dict_output, dpc>>

(***************************************************************************)
(* State: one QueryObject rewritten by one Rewriter, then executed         *)
(***************************************************************************)
VARIABLES
    rw_rewriter,    \* the Rewriter: its rules and the relations it has a rewriter for
    rw_original,    \* the QueryObject given to Rewriter.query_object
    rw_rewritten,   \* the QueryObject it returned, or the exception, or None
    rw_resolved,    \* ids of the QueryObjects whose fields resolve_query_object has populated
    rpc             \* "parsed" -> "rewritten" -> "used"

rewritevars == <<rw_rewriter, rw_original, rw_rewritten, rw_resolved, rpc>>

(***************************************************************************)
(* State: one QueryObject rewritten by one RewriteSAModel                  *)
(***************************************************************************)
VARIABLES
    sa_rewriter,    \* the RewriteSAModel: its rules and the relationships of its Model
    sa_original,    \* the QueryObject given to query_object()
    sa_rewritten,   \* the QueryObject it returned, or the exception, or None
    spc             \* "parsed" -> "rewritten"

samodelvars == <<sa_rewriter, sa_original, sa_rewritten, spc>>

(***************************************************************************)
(* State: the QuerySettings constructed so far and the Rewriters           *)
(***************************************************************************)
VARIABLES
    qs_constructed, \* the QuerySettings constructed, in order: each one's rewriter and limits
    qs_linked,      \* Rewriter -> the QuerySettings in rewriter.settings, or None
    qs_attempts,    \* the number of calls of QuerySettings(...)
    qs_call         \* the last call: its rewriter, rewriter.settings before it, what it raised

linkvars == <<qs_constructed, qs_linked, qs_attempts, qs_call>>

(***************************************************************************)
(* State: one request to an endpoint that depends on query_object()        *)
(***************************************************************************)
VARIABLES
    http_yaml,      \* whether the yaml module could be imported
    http_params,    \* the query parameters of the request
    http_result,    \* what query_object() returned or raised, or None before the call
    hpc             \* "request" -> "done"

httpvars == <<http_yaml, http_params, http_result, hpc>>

(***************************************************************************)
(* State: one client walking forward through the pages of a table under    *)
(* keyset pagination, and then one page back                               *)
(***************************************************************************)
VARIABLES
    pv_total,       \* number of rows in the table
    pv_settings,    \* the QuerySettings of the endpoint
    pv_first,       \* the Query Object of the first request
    pv_query,       \* the Query Object of the current Query
    pv_pager,       \* Query.pager_op of the current Query
    pv_pages,       \* the ids of the rows of every page fetched so far, in order
    pv_links,       \* the PageLinks of the current page
    pv_back,        \* whether the current Query followed a prev link
    pv_raised,      \* the exception the last call raised, or "none"
    ppc             \* "new", "ready", "fetched", "linked", "failed"

prevvars == <<pv_total, pv_settings, pv_first, pv_query, pv_pager, pv_pages, pv_links,
              pv_back, pv_raised, ppc>>

(***************************************************************************)
(* State: one QueryPage (features/cursor) over one table, no relations     *)
(***************************************************************************)
VARIABLES
    cp_total,       \* number of rows in the table
    cp_settings,    \* the QuerySettings of the endpoint
    cp_query,       \* the Query Object; a cursor comes in skip (skip.page)
    cp_op,          \* the executor's skiplimit_op, a CursorLimitOperation
    cp_rows,        \* the rows fetchall() returned
    cp_raised,      \* the exception raised, or "none"
    cpc             \* "new", "constructed", "fetched", "failed"

cursorvars == <<cp_total, cp_settings, cp_query, cp_op, cp_rows, cp_raised, cpc>>

(***************************************************************************)
(* State: one Query with a filter on each of its levels, from its          *)
(* construction to the end of fetchall()                                   *)
(***************************************************************************)
VARIABLES
    vl_query,       \* the Query Object
    vl_executed,    \* number of SQL statements executed so far
    vl_raised,      \* the exception raised, or "none"
    vlc             \* "new", "constructed", "primary", "done", "failed"

validatevars == <<vl_query, vl_executed, vl_raised, vlc>>

vars == <<pagevars, loadvars, treevars, nestvars, onevars, dictvars, rewritevars, samodelvars, linkvars, httpvars, prevvars, cursorvars, validatevars>>

\* what the actions of one machine leave alone: the other machines
besides_page == <<loadvars, treevars, nestvars, onevars, dictvars, rewritevars, samodelvars, linkvars, httpvars, prevvars, cursorvars, validatevars>>

besides_load == <<pagevars, treevars, nestvars, onevars, dictvars, rewritevars, samodelvars, linkvars, httpvars, prevvars, cursorvars, validatevars>>

besides_tree == <<pagevars, loadvars, nestvars, onevars, dictvars, rewritevars, samodelvars, linkvars, httpvars, prevvars, cursorvars, validatevars>>

besides_nest == <<pagevars, loadvars, treevars, onevars, dictvars, rewritevars, samodelvars, linkvars, httpvars, prevvars, cursorvars, validatevars>>

besides_one == <<pagevars, loadvars, treevars, nestvars, dictvars, rewritevars, samodelvars, linkvars, httpvars, prevvars, cursorvars, validatevars>>

besides_dict == <<pagevars, loadvars, treevars, nestvars, onevars, rewritevars, samodelvars, linkvars, httpvars, prevvars, cursorvars, validatevars>>

besides_rewrite == <<pagevars, loadvars, treevars, nestvars, onevars, dictvars, samodelvars, linkvars, httpvars, prevvars, cursorvars, validatevars>>

besides_samodel == <<pagevars, loadvars, treevars, nestvars, onevars, dictvars, rewritevars, linkvars, httpvars, prevvars, cursorvars, validatevars>>

besides_link == <<pagevars, loadvars, treevars, nestvars, onevars, dictvars, rewritevars, samodelvars, httpvars, prevvars, cursorvars, validatevars>>

besides_http == <<pagevars, loadvars, treevars, nestvars, onevars, dictvars, rewritevars, samodelvars, linkvars, prevvars, cursorvars, validatevars>>

besides_prev == <<pagevars, loadvars, treevars, nestvars, onevars, dictvars, rewritevars, samodelvars, linkvars, httpvars, cursorvars, validatevars>>

besides_cursor == <<pagevars, loadvars, treevars, nestvars, onevars, dictvars, rewritevars, samodelvars, linkvars, httpvars, prevvars, validatevars>>

besides_validate == <<pagevars, loadvars, treevars, nestvars, onevars, dictvars, rewritevars, samodelvars, linkvars, httpvars, prevvars, cursorvars>>

(***************************************************************************)
(* One client paginating one table                                         *)
(***************************************************************************)
PageInit ==
    /\ total \in 0..MaxRows
    /\ settings \in SettingsChoices
    /\ query = NoQuery
    /\ pager = NoPager
    /\ rows = <<>>
    /\ links = NoLinks
    /\ raised = "none"
    /\ pc = "new"
    /\ first = NoQuery
    /\ visited = <<>>
    /\ faithful = TRUE

\* q = Query(query_object, Model, settings)
Construct(q) ==
    LET op == Query_init(q, settings) IN
    /\ query' = q
    /\ pager' = IF op.exc = "none" THEN op ELSE NoPager
    /\ raised' = op.exc
    /\ pc' = IF op.exc = "none" THEN "ready" ELSE "failed"
    /\ rows' = <<>>
    /\ links' = NoLinks

\* the client's first request
NewQuery ==
    /\ pc = "new"
    /\ \E q \in Requests :
        /\ Construct(q)
        /\ first' = q
    /\ UNCHANGED <<total, settings, visited, faithful>>
    /\ UNCHANGED besides_page

Ids(rs) == [i \in 1..Len(rs) |-> rs[i].id]

\* q.fetchall(connection): build the statement, execute it, inspect the rows
Fetchall ==
    /\ pc = "ready"
    /\ LET built == BeforeAfterOperation_apply_to_statement(pager, query) IN
       IF built.exc # "none"
       THEN /\ raised' = built.exc
            /\ pc' = "failed"
            /\ UNCHANGED <<pager, rows, visited>>
       ELSE LET res == BeforeAfterOperation_apply_to_results(
                           pager, query, Execute(built.stmt, total)) IN
            IF res.exc # "none"
            THEN /\ raised' = res.exc
                 /\ pc' = "failed"
                 /\ UNCHANGED <<pager, rows, visited>>
            ELSE /\ raised' = "none"
                 /\ pc' = "fetched"
                 /\ pager' = [pager EXCEPT !.cursor_impl = res.impl]
                 /\ rows' = res.rows
                 /\ visited' = visited \o Ids(res.rows)
    /\ UNCHANGED <<total, settings, query, links, first, faithful>>
    /\ UNCHANGED besides_page

\* q.page_links(), before or after fetchall()
PageLinks ==
    /\ pc \in {"ready", "fetched"}
    /\ raised = "none"
    /\ LET res == BeforeAfterOperation_get_page_links(pager) IN
       IF res.exc # "none"
       THEN /\ raised' = res.exc
            /\ UNCHANGED <<links, pc>>
       ELSE /\ raised' = "none"
            /\ links' = res.links
            /\ pc' = IF pc = "fetched" THEN "linked" ELSE pc
    /\ UNCHANGED <<total, settings, query, pager, rows, first, visited, faithful>>
    /\ UNCHANGED besides_page

\* the client repeats its request with "after" set to the next link
FollowNext ==
    /\ pc = "linked"
    /\ links.next # NoCursor
    /\ Construct([first EXCEPT !.skip = None, !.after = links.next])
    /\ UNCHANGED <<total, settings, first, visited, faithful>>
    /\ UNCHANGED besides_page

\* the client follows the next link and changes (or drops) "limit"
FollowNextOtherLimit ==
    /\ pc = "linked"
    /\ links.next # NoCursor
    /\ \E l \in OptLimits \ {first.limit} :
        Construct([first EXCEPT !.skip = None, !.after = links.next, !.limit = l])
    /\ faithful' = FALSE
    /\ UNCHANGED <<total, settings, first, visited>>
    /\ UNCHANGED besides_page

\* the sorts a client may switch to while it keeps the cursor
ChangedSorts ==
    { <<>>, <<Asc("id")>>, <<Desc("id")>>, <<Asc("a")>>,
      <<Asc("a"), Asc("id")>>, <<Asc("id"), Asc("a")>> }

\* the client follows the next link and changes "sort"; it does so once, as
\* the first thing it changes in its request
FollowNextOtherSort ==
    /\ pc = "linked"
    /\ faithful
    /\ links.next # NoCursor
    /\ \E s \in ChangedSorts \ {first.sort} :
        Construct([first EXCEPT !.skip = None, !.after = links.next, !.sort = s])
    /\ faithful' = FALSE
    /\ UNCHANGED <<total, settings, first, visited>>
    /\ UNCHANGED besides_page

PageNext ==
    \/ NewQuery
    \/ Fetchall
    \/ PageLinks
    \/ FollowNext
    \/ FollowNextOtherLimit
    \/ FollowNextOtherSort

(***************************************************************************)
(* One related executor loading a relation for a batch of parent rows      *)
(***************************************************************************)
LoadInit ==
    /\ relation_property \in RelationChoices
    /\ \E keys \in ShortBatches(relation_property) \cup LongBatches,
          q \in RelationQueries, s \in SettingsChoices :
        /\ Len(keys) > MaxParents => (q \in LongBatchQueries /\ s = NoSettings)
        /\ relation_query = q
        /\ skiplimit_op = SkipLimitOperation_init(q, s)
        /\ source_states = ParentRows(relation_property, keys)
    /\ our_states = <<>>
    /\ none_states = <<>>
    /\ pending = <<>>
    /\ populated = [i \in 1..Len(source_states) |-> Unset]
    /\ statements = <<>>
    /\ nyielded = 0
    /\ yielded_items = {}
    /\ lpc = "constructed"

\* executor.loader.for_states(states)
ForStates ==
    /\ lpc = "constructed"
    /\ LET prepared == prepare_states(relation_property, source_states) IN
        /\ our_states' = prepared.our_states
        /\ none_states' = prepared.none_states
    /\ lpc' = "prepared"
    /\ UNCHANGED <<relation_property, relation_query, skiplimit_op, source_states,
                   pending, populated, statements, nyielded, yielded_items>>
    /\ UNCHANGED besides_load

\* executor._load_results(): fetch_results_and_populate_states() up to its loop
LoadResults ==
    /\ lpc = "prepared"
    /\ pending' = IF load_only_child(relation_property)
                  THEN sorted(DOMAIN our_states)
                  ELSE our_states
    /\ lpc' = "loading"
    /\ UNCHANGED <<relation_property, relation_query, skiplimit_op, source_states,
                   our_states, none_states, populated, statements, nyielded,
                   yielded_items>>
    /\ UNCHANGED besides_load

\* one chunk of _load_via_parent
LoadViaParent ==
    /\ lpc = "loading"
    /\ ~load_only_child(relation_property)
    /\ pending # <<>>
    /\ LET res == load_via_parent_chunk(relation_property,
                      RelatedQueryStatement(skiplimit_op, relation_query),
                      pending, populated) IN
        /\ pending' = res.todo
        /\ populated' = res.populated
        /\ statements' = Append(statements, res.primary_keys)
        /\ nyielded' = nyielded + res.yielded
        /\ yielded_items' = yielded_items \cup res.items
    /\ UNCHANGED <<relation_property, relation_query, skiplimit_op, source_states,
                   our_states, none_states, lpc>>
    /\ UNCHANGED besides_load

\* one chunk of _load_via_child
LoadViaChild ==
    /\ lpc = "loading"
    /\ load_only_child(relation_property)
    /\ pending # <<>>
    /\ LET res == load_via_child_chunk(relation_property,
                      RelatedQueryStatement(skiplimit_op, relation_query),
                      our_states, none_states, pending, populated) IN
        /\ pending' = res.todo
        /\ populated' = res.populated
        /\ statements' = Append(statements, res.primary_keys)
        /\ nyielded' = nyielded + res.yielded
        /\ yielded_items' = yielded_items \cup res.items
    /\ UNCHANGED <<relation_property, relation_query, skiplimit_op, source_states,
                   our_states, none_states, lpc>>
    /\ UNCHANGED besides_load

\* the loader's loop has nothing left: the generator is exhausted
LoadDone ==
    /\ lpc = "loading"
    /\ pending = <<>>
    /\ lpc' = "done"
    /\ UNCHANGED <<relation_property, relation_query, skiplimit_op, source_states,
                   our_states, none_states, pending, populated, statements, nyielded, yielded_items>>
    /\ UNCHANGED besides_load

LoadNext == ForStates \/ LoadResults \/ LoadViaParent \/ LoadViaChild \/ LoadDone

(***************************************************************************)
(* The executor tree of one Query: construction, customization handlers,   *)
(* and fetchall() with its recursion kept as a stack of frames             *)
(***************************************************************************)
TreeInit ==
    /\ root_model \in Models
    /\ query_object \in JoinedQueries(root_model, MaxExecutors)
    /\ executors = <<>>
    /\ lists = [customize_statements |-> <<>>, customize_results |-> <<>>]
    /\ stack = <<>>
    /\ log = <<>>
    /\ tpc = "new"

\* q = Query(query_object, Model)
ConstructQuery ==
    /\ tpc = "new"
    /\ LET built == QueryExecutor_init(query_object, root_model, <<>>) IN
        /\ executors' = built
        /\ lists' = [customize_statements |->
                        [p \in DOMAIN built |-> <<"settings.customize_statement">>],
                     customize_results |->
                        [p \in DOMAIN built |-> <<"settings.customize_result">>]]
    /\ tpc' = "constructed"
    /\ UNCHANGED <<root_model, query_object, stack, log>>
    /\ UNCHANGED besides_tree

\* q.customize_statements.append(callback)
AppendStatementsHandler ==
    /\ tpc = "constructed"
    /\ LET list == executors[<<>>].customize_statements IN
        /\ Len(lists.customize_statements[list]) = 1
        /\ lists' = [lists EXCEPT !.customize_statements[list] = Append(@, "callback")]
    /\ UNCHANGED <<root_model, query_object, executors, stack, log, tpc>>
    /\ UNCHANGED besides_tree

\* q.customize_results.append(callback)
AppendResultsHandler ==
    /\ tpc = "constructed"
    /\ LET list == executors[<<>>].customize_results IN
        /\ Len(lists.customize_results[list]) = 1
        /\ lists' = [lists EXCEPT !.customize_results[list] = Append(@, "callback")]
    /\ UNCHANGED <<root_model, query_object, executors, stack, log, tpc>>
    /\ UNCHANGED besides_tree

\* q.fetchall(connection), called on the root
ExecutorFetchall ==
    /\ tpc = "constructed"
    /\ stack' = <<Frame(<<>>, 0)>>
    /\ tpc' = "fetching"
    /\ UNCHANGED <<root_model, query_object, executors, lists, log>>
    /\ UNCHANGED besides_tree

\* the numbers of rows a level may load
RowCounts(executor, source_count) ==
    IF executor.loader = "PrimaryQueryLoader" THEN {0, 1, CHUNKSIZE + 1}
    ELSE {0, source_count}

\* states = list(self._load_results(connection)): build the statement, letting every
\* handler of customize_statements change it, and execute it once per chunk of states
LoadOwnResults ==
    /\ tpc = "fetching"
    /\ stack # <<>>
    /\ Head(stack).step = "load_results"
    /\ LET top == Head(stack)
           executor == executors[top.executor]
           executions == IF executor.loader = "PrimaryQueryLoader" THEN 1
                         ELSE ChunkCount(top.source_states)
           entry(what) == [what |-> what, executor |-> top.executor,
                           load_path |-> executor.load_path,
                           query_level |-> query_level(executor),
                           handlers |-> lists.customize_statements[
                                            executor.customize_statements]]
       IN \E n \in RowCounts(executor, top.source_states) :
            /\ log' = log \o <<entry("statement")>>
                          \o [i \in 1..executions |-> entry("execute")]
            /\ stack' = <<[top EXCEPT !.step = "load_relations", !.states = n,
                                      !.relations = executor.related_executors]>>
                        \o Tail(stack)
    /\ UNCHANGED <<root_model, query_object, executors, lists, tpc>>
    /\ UNCHANGED besides_tree

\* a variant that queues the related executor's fetchall() behind every pending one
LoadRelations_Queued ==
    /\ tpc = "fetching"
    /\ stack # <<>>
    /\ Head(stack).step = "load_relations"
    /\ Head(stack).relations # <<>>
    /\ LET top == Head(stack)
           child == Append(top.executor, Head(top.relations))
       IN stack' = <<[top EXCEPT !.relations = Tail(top.relations)]>>
                   \o Tail(stack) \o <<Frame(child, top.states)>>
    /\ UNCHANGED <<root_model, query_object, executors, lists, log, tpc>>
    /\ UNCHANGED besides_tree

\* _load_relations, the next relation: executor.loader.for_states(states), then
\* executor.fetchall(connection), which returns before the relation after it starts
LoadRelations ==
    /\ tpc = "fetching"
    /\ stack # <<>>
    /\ Head(stack).step = "load_relations"
    /\ Head(stack).relations # <<>>
    /\ LET top == Head(stack)
           child == Append(top.executor, Head(top.relations))
       IN stack' = <<Frame(child, top.states)>>
                   \o <<[top EXCEPT !.relations = Tail(top.relations)]>>
                   \o Tail(stack)
    /\ UNCHANGED <<root_model, query_object, executors, lists, log, tpc>>
    /\ UNCHANGED besides_tree

\* _apply_operations_to_results: every handler of customize_results sees the rows,
\* and fetchall() returns
ApplyResults ==
    /\ tpc = "fetching"
    /\ stack # <<>>
    /\ Head(stack).step = "load_relations"
    /\ Head(stack).relations = <<>>
    /\ LET top == Head(stack)
           executor == executors[top.executor]
       IN log' = Append(log, [what |-> "results", executor |-> top.executor,
                              load_path |-> executor.load_path,
                              query_level |-> query_level(executor),
                              handlers |-> lists.customize_results[
                                               executor.customize_results]])
    /\ stack' = Tail(stack)
    /\ tpc' = IF Tail(stack) = <<>> THEN "fetched" ELSE "fetching"
    /\ UNCHANGED <<root_model, query_object, executors, lists>>
    /\ UNCHANGED besides_tree

TreeNext ==
    \/ ConstructQuery
    \/ AppendStatementsHandler
    \/ AppendResultsHandler
    \/ ExecutorFetchall
    \/ LoadOwnResults
    \/ LoadRelations
    \/ ApplyResults

(***************************************************************************)
(* One Query or QueryPage with at most one joined relation: the pagination *)
(* of the root statement and of the related statement                      *)
(***************************************************************************)
NestInit ==
    /\ nest_cls \in {"Query", "QueryPage"}
    /\ nest_query \in PageQueries
    /\ nest_ops = <<>>
    /\ nest_stmts = <<>>
    /\ nest_raised = "none"
    /\ npc = "new"

\* QueryExecutor.__init__: the operations of the root, then for every selected
\* relation an executor of the same class, put in window mode by _for_relation
NestConstruct ==
    /\ npc = "new"
    /\ LET root == Executor_skiplimit_for_query(nest_cls, nest_query, NoSettings)
           join == nest_query.join
           related == Executor_skiplimit_for_query(nest_cls, join, NoSettings)
       IN IF root.exc # "none"
          THEN /\ nest_raised' = root.exc
               /\ npc' = "failed"
               /\ UNCHANGED nest_ops
          ELSE IF ~join.selected
          THEN /\ nest_ops' = <<root>>
               /\ npc' = "constructed"
               /\ UNCHANGED nest_raised
          ELSE IF related.exc # "none"
          THEN /\ nest_raised' = related.exc
               /\ npc' = "failed"
               /\ UNCHANGED nest_ops
          ELSE /\ nest_ops' = <<root, paginate_over_foreign_keys(related)>>
               /\ npc' = "constructed"
               /\ UNCHANGED nest_raised
    /\ UNCHANGED <<nest_cls, nest_query, nest_stmts>>
    /\ UNCHANGED besides_nest

\* fetchall(): _load_results builds the statement of the root level
NestLoadResults ==
    /\ npc = "constructed"
    /\ LET built == Executor_skiplimit_apply_to_statement(
                        nest_ops[1], nest_query, LevelStatement(nest_query))
       IN IF built.exc # "none"
          THEN /\ nest_raised' = built.exc
               /\ npc' = "failed"
               /\ UNCHANGED nest_stmts
          ELSE /\ nest_stmts' = <<built.stmt>>
               /\ npc' = "primary"
               /\ UNCHANGED nest_raised
    /\ UNCHANGED <<nest_cls, nest_query, nest_ops>>
    /\ UNCHANGED besides_nest

\* fetchall(): _load_relations runs fetchall() of every related executor,
\* which builds the related statement
NestLoadRelations ==
    /\ npc = "primary"
    /\ IF Len(nest_ops) = 1
       THEN /\ npc' = "done"
            /\ UNCHANGED <<nest_stmts, nest_raised>>
       ELSE LET built == Executor_skiplimit_apply_to_statement(
                             nest_ops[2], nest_query.join,
                             LevelStatement(nest_query.join))
            IN IF built.exc # "none"
               THEN /\ nest_raised' = built.exc
                    /\ npc' = "failed"
                    /\ UNCHANGED nest_stmts
               ELSE /\ nest_stmts' = Append(nest_stmts, built.stmt)
                    /\ npc' = "done"
                    /\ UNCHANGED nest_raised
    /\ UNCHANGED <<nest_cls, nest_query, nest_ops>>
    /\ UNCHANGED besides_nest

NestNext == NestConstruct \/ NestLoadResults \/ NestLoadRelations

(***************************************************************************)
(* One level fetched with fetchall() or with fetchone()                    *)
(***************************************************************************)
OneInit ==
    /\ one_count \in 0..MaxRows
    /\ one_relation \in BOOLEAN
    /\ one_property \in BOOLEAN
    /\ one_handlers \in HandlerChoices
    /\ one_returned = Unset
    /\ one_states = <<>>
    /\ opc = "new"

\* q.fetchall(connection)
OneFetchall ==
    /\ opc = "new"
    /\ LET res == QueryExecutor_fetchall(one_count, one_relation, one_property,
                                         <<"settings.customize_result">> \o one_handlers)
       IN /\ one_returned' = res.returned
          /\ one_states' = res.states
    /\ opc' = "fetchall"
    /\ UNCHANGED <<one_count, one_relation, one_property, one_handlers>>
    /\ UNCHANGED besides_one

\* q.fetchone(connection)
OneFetchone ==
    /\ opc = "new"
    /\ LET res == QueryExecutor_fetchone(one_count, one_relation, one_property,
                                         <<"settings.customize_result">> \o one_handlers)
       IN /\ one_returned' = res.returned
          /\ one_states' = res.states
    /\ opc' = "fetchone"
    /\ UNCHANGED <<one_count, one_relation, one_property, one_handlers>>
    /\ UNCHANGED besides_one

OneNext == OneFetchall \/ OneFetchone

(***************************************************************************)
(* Parsing and exporting a Query Object dict                               *)
(***************************************************************************)
DictInit ==
    /\ dict_input \in {d \in QueryObjectDicts :
            Cardinality(dict_keys(d.dict) \cap {"skip", "before", "after"}) <= 1}
    /\ dict_query = None
    /\ dict_output = None
    /\ dpc = "input"

DictParse ==
    /\ dpc = "input"
    /\ dict_query' = QueryObject_from_query_object(dict_input)
    /\ dpc' = "parsed"
    /\ UNCHANGED <<dict_input, dict_output>>
    /\ UNCHANGED besides_dict

DictExport ==
    /\ dpc = "parsed"
    /\ dict_output' = QueryObject_dict(dict_query)
    /\ dpc' = "exported"
    /\ UNCHANGED <<dict_input, dict_query>>
    /\ UNCHANGED besides_dict

DictNext ==
    \/ DictParse
    \/ DictExport

(***************************************************************************)
(* Rewriting a QueryObject and executing the rewritten one                 *)
(***************************************************************************)
RewriteInit ==
    /\ rw_rewriter \in Rewriters
    /\ rw_original \in {WithIds(QueryObject_from_query_object(d), OriginalId) : d \in RewrittenDicts}
    /\ rw_rewritten = None
    /\ rw_resolved = {}
    /\ rpc = "parsed"

RewriteQueryObject ==
    /\ rpc = "parsed"
    /\ rw_rewritten' = Rewriter_query_object(rw_rewriter, rw_original, RewrittenId)
    /\ rpc' = "rewritten"
    /\ UNCHANGED <<rw_rewriter, rw_original, rw_resolved>>
    /\ UNCHANGED besides_rewrite

RewriteExecute ==
    /\ rpc = "rewritten"
    /\ "exc" \notin DOMAIN rw_rewritten
    /\ rw_resolved' = rw_resolved \cup resolved_by_executor(rw_rewritten)
    /\ rpc' = "used"
    /\ UNCHANGED <<rw_rewriter, rw_original, rw_rewritten>>
    /\ UNCHANGED besides_rewrite

RewriteNext ==
    \/ RewriteQueryObject
    \/ RewriteExecute

(***************************************************************************)
(* Rewriting a QueryObject with RewriteSAModel                             *)
(***************************************************************************)
SAModelInit ==
    /\ sa_rewriter \in SAModelRewriters
    /\ sa_original \in {WithIds(QueryObject_from_query_object(d), OriginalId) : d \in SAModelDicts}
    /\ sa_rewritten = None
    /\ spc = "parsed"

SAModelQueryObject ==
    /\ spc = "parsed"
    /\ sa_rewritten' = RewriteSAModel_query_object(sa_rewriter, sa_original, RewrittenId)
    /\ spc' = "rewritten"
    /\ UNCHANGED <<sa_rewriter, sa_original>>
    /\ UNCHANGED besides_samodel

SAModelNext ==
    \/ SAModelQueryObject

(***************************************************************************)
(* Constructing QuerySettings with Rewriters                               *)
(***************************************************************************)
NoCall == [rewriter |-> None, before |-> None, raised |-> "none"]

LinkInit ==
    /\ qs_constructed = <<>>
    /\ qs_linked = <<None>>
    /\ qs_attempts = 0
    /\ qs_call = NoCall

\* Rewriter(*rules), or copy.copy(rewriter): a Rewriter with settings None
LinkNewRewriter ==
    /\ Len(qs_linked) < MaxRewriters
    /\ qs_linked' = Append(qs_linked, None)
    /\ UNCHANGED <<qs_constructed, qs_attempts, qs_call>>
    /\ UNCHANGED besides_link

\* QuerySettings(default_limit=..., rewriter=...)
LinkConstruct ==
    /\ qs_attempts < MaxSettings
    /\ \E rewriter \in {None} \cup DOMAIN qs_linked, default_limit \in {None, 1} :
        LET self == Len(qs_constructed) + 1
            init == QuerySettings_post_init(self, rewriter, qs_linked)
        IN  /\ qs_linked' = init.linked
            /\ qs_constructed' = IF init.raised = "none"
                                 THEN Append(qs_constructed,
                                             [default_limit |-> default_limit, max_limit |-> None,
                                              rewriter |-> rewriter])
                                 ELSE qs_constructed
            /\ qs_call' = [rewriter |-> rewriter,
                           before |-> IF rewriter = None THEN None ELSE qs_linked[rewriter],
                           raised |-> init.raised]
    /\ qs_attempts' = qs_attempts + 1
    /\ UNCHANGED besides_link

LinkNext ==
    \/ LinkNewRewriter
    \/ LinkConstruct

(***************************************************************************)
(* Calling the FastAPI dependency                                          *)
(***************************************************************************)
HttpInit ==
    /\ http_yaml \in BOOLEAN
    /\ http_params \in RequestParameters
    /\ http_result = None
    /\ hpc = "request"

HttpQueryObject ==
    /\ hpc = "request"
    /\ http_result' = fastapi_query_object(http_yaml, http_params)
    /\ hpc' = "done"
    /\ UNCHANGED <<http_yaml, http_params>>
    /\ UNCHANGED besides_http

HttpNext ==
    \/ HttpQueryObject

(***************************************************************************)
(* Walking the next links, then a prev link                                *)
(***************************************************************************)
PrevInit ==
    /\ pv_total \in 0..MaxRows
    /\ pv_settings \in SettingsChoices
    /\ pv_first = NoQuery
    /\ pv_query = NoQuery
    /\ pv_pager = NoPager
    /\ pv_pages = <<>>
    /\ pv_links = NoLinks
    /\ pv_back = FALSE
    /\ pv_raised = "none"
    /\ ppc = "new"

\* q = Query(query_object, Model, settings)
PrevConstruct(q) ==
    LET op == Query_init(q, pv_settings) IN
    /\ pv_query' = q
    /\ pv_pager' = IF op.exc = "none" THEN op ELSE NoPager
    /\ pv_raised' = op.exc
    /\ ppc' = IF op.exc = "none" THEN "ready" ELSE "failed"
    /\ pv_links' = NoLinks

\* the client's first request
PrevNewQuery ==
    /\ ppc = "new"
    /\ \E q \in KeysetRequests :
        /\ PrevConstruct(q)
        /\ pv_first' = q
    /\ UNCHANGED <<pv_total, pv_settings, pv_pages, pv_back>>
    /\ UNCHANGED besides_prev

\* q.fetchall(connection)
PrevFetchall ==
    /\ ppc = "ready"
    /\ LET built == BeforeAfterOperation_apply_to_statement(pv_pager, pv_query) IN
       IF built.exc # "none"
       THEN /\ pv_raised' = built.exc
            /\ ppc' = "failed"
            /\ UNCHANGED <<pv_pager, pv_pages>>
       ELSE LET res == BeforeAfterOperation_apply_to_results(
                           pv_pager, pv_query, Execute(built.stmt, pv_total)) IN
            IF res.exc # "none"
            THEN /\ pv_raised' = res.exc
                 /\ ppc' = "failed"
                 /\ UNCHANGED <<pv_pager, pv_pages>>
            ELSE /\ pv_raised' = "none"
                 /\ ppc' = "fetched"
                 /\ pv_pager' = [pv_pager EXCEPT !.cursor_impl = res.impl]
                 /\ pv_pages' = Append(pv_pages, Ids(res.rows))
    /\ UNCHANGED <<pv_total, pv_settings, pv_first, pv_query, pv_links, pv_back>>
    /\ UNCHANGED besides_prev

\* q.page_links()
PrevPageLinks ==
    /\ ppc = "fetched"
    /\ LET res == BeforeAfterOperation_get_page_links(pv_pager) IN
       IF res.exc # "none"
       THEN /\ pv_raised' = res.exc
            /\ ppc' = "failed"
            /\ UNCHANGED pv_links
       ELSE /\ pv_raised' = "none"
            /\ pv_links' = res.links
            /\ ppc' = "linked"
    /\ UNCHANGED <<pv_total, pv_settings, pv_first, pv_query, pv_pager, pv_pages, pv_back>>
    /\ UNCHANGED besides_prev

\* the client repeats its request with "after" set to the next link
PrevFollowNext ==
    /\ ppc = "linked"
    /\ ~pv_back
    /\ pv_links.next # NoCursor
    /\ PrevConstruct([pv_first EXCEPT !.after = pv_links.next])
    /\ UNCHANGED <<pv_total, pv_settings, pv_first, pv_pages, pv_back>>
    /\ UNCHANGED besides_prev

\* the client repeats its request with "before" set to the prev link; the
\* walk of the model ends with the page that this request returns
PrevFollowPrev ==
    /\ ppc = "linked"
    /\ ~pv_back
    /\ pv_links.prev # NoCursor
    /\ PrevConstruct([pv_first EXCEPT !.before = pv_links.prev])
    /\ pv_back' = TRUE
    /\ UNCHANGED <<pv_total, pv_settings, pv_first, pv_pages>>
    /\ UNCHANGED besides_prev

PrevNext ==
    \/ PrevNewQuery
    \/ PrevFetchall
    \/ PrevPageLinks
    \/ PrevFollowNext
    \/ PrevFollowPrev

(***************************************************************************)
(* QueryPage(query, Model, settings) and its fetchall()                    *)
(***************************************************************************)
CursorInit ==
    /\ cp_total \in 0..MaxRows
    /\ cp_settings \in SettingsChoices
    /\ cp_query \in TopLevelPageQueries
    /\ cp_op = NoPager
    /\ cp_rows = <<>>
    /\ cp_raised = "none"
    /\ cpc = "new"

\* QueryPage(query, Model, settings)
CursorConstruct ==
    /\ cpc = "new"
    /\ LET op == CursorLimitOperation_for_query(cp_query, cp_settings) IN
        /\ cp_op' = IF op.exc = "none" THEN op ELSE NoPager
        /\ cp_raised' = op.exc
        /\ cpc' = IF op.exc = "none" THEN "constructed" ELSE "failed"
    /\ UNCHANGED <<cp_total, cp_settings, cp_query, cp_rows>>
    /\ UNCHANGED besides_cursor

\* q.fetchall(connection): statement, execute, then the inspect_final_row
\* callback of customize_results
CursorFetchall ==
    /\ cpc = "constructed"
    /\ LET built == CursorLimitOperation_apply_to_statement(
                        cp_op, cp_query, LevelStatement(cp_query)) IN
       IF built.exc # "none"
       THEN /\ cp_raised' = built.exc
            /\ cpc' = "failed"
            /\ UNCHANGED cp_rows
       ELSE LET res == PageCursor_inspect_data_rows(
                           cp_op, cp_query, ExecuteLevel(built.stmt, cp_total)) IN
            IF res.exc # "none"
            THEN /\ cp_raised' = res.exc
                 /\ cpc' = "failed"
                 /\ UNCHANGED cp_rows
            ELSE /\ cp_raised' = "none"
                 /\ cpc' = "fetched"
                 /\ cp_rows' = res.rows
    /\ UNCHANGED <<cp_total, cp_settings, cp_query, cp_op>>
    /\ UNCHANGED besides_cursor

CursorNext ==
    \/ CursorConstruct
    \/ CursorFetchall

(***************************************************************************)
(* QueryExecutor(query, Model) and fetchall() of a filtered Query          *)
(***************************************************************************)
ValidateInit ==
    /\ vl_query \in FilteredQueries
    /\ vl_executed = 0
    /\ vl_raised = "none"
    /\ vlc = "new"

\* QueryExecutor.__init__: resolves its level, then constructs the related
\* executor, which resolves the relation's level
ValidateConstruct ==
    /\ vlc = "new"
    /\ LET own == resolve_query_object(vl_query)
           related == IF vl_query.relation.selected
                      THEN resolve_query_object(vl_query.relation.query)
                      ELSE "none"
           exc == IF own # "none" THEN own ELSE related
       IN /\ vl_raised' = exc
          /\ vlc' = IF exc = "none" THEN "constructed" ELSE "failed"
    /\ UNCHANGED <<vl_query, vl_executed>>
    /\ UNCHANGED besides_validate

\* fetchall(): _load_results() builds the statement of the level and executes it
ValidateLoadResults ==
    /\ vlc = "constructed"
    /\ LET exc == FilterOperation_apply_to_statement(vl_query) IN
        /\ vl_raised' = exc
        /\ vlc' = IF exc = "none" THEN "primary" ELSE "failed"
        /\ vl_executed' = IF exc = "none" THEN vl_executed + 1 ELSE vl_executed
    /\ UNCHANGED vl_query
    /\ UNCHANGED besides_validate

\* fetchall(): _load_relations() runs fetchall() of the related executor,
\* which builds its statement and executes it
ValidateLoadRelations ==
    /\ vlc = "primary"
    /\ IF ~vl_query.relation.selected
       THEN /\ vlc' = "done"
            /\ UNCHANGED <<vl_raised, vl_executed>>
       ELSE LET exc == FilterOperation_apply_to_statement(vl_query.relation.query) IN
            /\ vl_raised' = exc
            /\ vlc' = IF exc = "none" THEN "done" ELSE "failed"
            /\ vl_executed' = IF exc = "none" THEN vl_executed + 1 ELSE vl_executed
    /\ UNCHANGED vl_query
    /\ UNCHANGED besides_validate

ValidateNext ==
    \/ ValidateConstruct
    \/ ValidateLoadResults
    \/ ValidateLoadRelations

(***************************************************************************)
(* Specifications: one per machine, the other machines standing still      *)
(***************************************************************************)
\* the page machine without a client
PageIdle ==
    /\ total = 0
    /\ settings = NoSettings
    /\ query = NoQuery
    /\ pager = NoPager
    /\ rows = <<>>
    /\ links = NoLinks
    /\ raised = "none"
    /\ pc = "idle"
    /\ first = NoQuery
    /\ visited = <<>>
    /\ faithful = TRUE

\* the load machine without a relation to load
LoadIdle ==
    /\ relation_property = [key |-> "none"]
    /\ relation_query = [sort |-> <<>>, skip |-> None, limit |-> None]
    /\ skiplimit_op = [skip |-> None, limit |-> None]
    /\ source_states = <<>>
    /\ our_states = <<>>
    /\ none_states = <<>>
    /\ pending = <<>>
    /\ populated = <<>>
    /\ statements = <<>>
    /\ nyielded = 0
    /\ yielded_items = {}
    /\ lpc = "idle"

\* the tree machine without a Query
TreeIdle ==
    /\ root_model = "none"
    /\ query_object = [relations |-> <<>>]
    /\ executors = <<>>
    /\ lists = [customize_statements |-> <<>>, customize_results |-> <<>>]
    /\ stack = <<>>
    /\ log = <<>>
    /\ tpc = "idle"

\* the nest machine without a Query
NestIdle ==
    /\ nest_cls = "none"
    /\ nest_query = [join |-> NoJoin]
    /\ nest_ops = <<>>
    /\ nest_stmts = <<>>
    /\ nest_raised = "none"
    /\ npc = "idle"

\* the one-level machine without a Query
OneIdle ==
    /\ one_count = 0
    /\ one_relation = FALSE
    /\ one_property = FALSE
    /\ one_handlers = <<>>
    /\ one_returned = Unset
    /\ one_states = <<>>
    /\ opc = "idle"

DictIdle ==
    /\ dict_input = None
    /\ dict_query = None
    /\ dict_output = None
    /\ dpc = "idle"

RewriteIdle ==
    /\ rw_rewriter = None
    /\ rw_original = None
    /\ rw_rewritten = None
    /\ rw_resolved = {}
    /\ rpc = "idle"

SAModelIdle ==
    /\ sa_rewriter = None
    /\ sa_original = None
    /\ sa_rewritten = None
    /\ spc = "idle"

LinkIdle ==
    /\ qs_constructed = <<>>
    /\ qs_linked = <<>>
    /\ qs_attempts = 0
    /\ qs_call = [rewriter |-> None, before |-> None, raised |-> "idle"]

HttpIdle ==
    /\ http_yaml = FALSE
    /\ http_params = None
    /\ http_result = None
    /\ hpc = "idle"

PrevIdle ==
    /\ pv_total = 0
    /\ pv_settings = NoSettings
    /\ pv_first = NoQuery
    /\ pv_query = NoQuery
    /\ pv_pager = NoPager
    /\ pv_pages = <<>>
    /\ pv_links = NoLinks
    /\ pv_back = FALSE
    /\ pv_raised = "none"
    /\ ppc = "idle"

CursorIdle ==
    /\ cp_total = 0
    /\ cp_settings = NoSettings
    /\ cp_query = NoQuery
    /\ cp_op = NoPager
    /\ cp_rows = <<>>
    /\ cp_raised = "none"
    /\ cpc = "idle"

ValidateIdle ==
    /\ vl_query = NoQuery
    /\ vl_executed = 0
    /\ vl_raised = "none"
    /\ vlc = "idle"

InitPage == PageInit /\ LoadIdle /\ TreeIdle /\ NestIdle /\ OneIdle /\ DictIdle /\ RewriteIdle /\ SAModelIdle /\ LinkIdle /\ HttpIdle /\ PrevIdle /\ CursorIdle /\ ValidateIdle

InitLoad == LoadInit /\ PageIdle /\ TreeIdle /\ NestIdle /\ OneIdle /\ DictIdle /\ RewriteIdle /\ SAModelIdle /\ LinkIdle /\ HttpIdle /\ PrevIdle /\ CursorIdle /\ ValidateIdle

InitTree == TreeInit /\ PageIdle /\ LoadIdle /\ NestIdle /\ OneIdle /\ DictIdle /\ RewriteIdle /\ SAModelIdle /\ LinkIdle /\ HttpIdle /\ PrevIdle /\ CursorIdle /\ ValidateIdle

InitNest == NestInit /\ PageIdle /\ LoadIdle /\ TreeIdle /\ OneIdle /\ DictIdle /\ RewriteIdle /\ SAModelIdle /\ LinkIdle /\ HttpIdle /\ PrevIdle /\ CursorIdle /\ ValidateIdle

InitOne == OneInit /\ PageIdle /\ LoadIdle /\ TreeIdle /\ NestIdle /\ DictIdle /\ RewriteIdle /\ SAModelIdle /\ LinkIdle /\ HttpIdle /\ PrevIdle /\ CursorIdle /\ ValidateIdle

InitDict == DictInit /\ PageIdle /\ LoadIdle /\ TreeIdle /\ NestIdle /\ OneIdle /\ RewriteIdle /\ SAModelIdle /\ LinkIdle /\ HttpIdle /\ PrevIdle /\ CursorIdle /\ ValidateIdle

InitRewrite == RewriteInit /\ PageIdle /\ LoadIdle /\ TreeIdle /\ NestIdle /\ OneIdle /\ DictIdle /\ SAModelIdle /\ LinkIdle /\ HttpIdle /\ PrevIdle /\ CursorIdle /\ ValidateIdle

InitSAModel == SAModelInit /\ PageIdle /\ LoadIdle /\ TreeIdle /\ NestIdle /\ OneIdle /\ DictIdle /\ RewriteIdle /\ LinkIdle /\ HttpIdle /\ PrevIdle /\ CursorIdle /\ ValidateIdle

InitLink == LinkInit /\ PageIdle /\ LoadIdle /\ TreeIdle /\ NestIdle /\ OneIdle /\ DictIdle /\ RewriteIdle /\ SAModelIdle /\ HttpIdle /\ PrevIdle /\ CursorIdle /\ ValidateIdle

InitHttp == HttpInit /\ PageIdle /\ LoadIdle /\ TreeIdle /\ NestIdle /\ OneIdle /\ DictIdle /\ RewriteIdle /\ SAModelIdle /\ LinkIdle /\ PrevIdle /\ CursorIdle /\ ValidateIdle

InitPrev == PrevInit /\ PageIdle /\ LoadIdle /\ TreeIdle /\ NestIdle /\ OneIdle /\ DictIdle /\ RewriteIdle /\ SAModelIdle /\ LinkIdle /\ HttpIdle /\ CursorIdle /\ ValidateIdle

InitCursor == CursorInit /\ PageIdle /\ LoadIdle /\ TreeIdle /\ NestIdle /\ OneIdle /\ DictIdle /\ RewriteIdle /\ SAModelIdle /\ LinkIdle /\ HttpIdle /\ PrevIdle /\ ValidateIdle

InitValidate == ValidateInit /\ PageIdle /\ LoadIdle /\ TreeIdle /\ NestIdle /\ OneIdle /\ DictIdle /\ RewriteIdle /\ SAModelIdle /\ LinkIdle /\ HttpIdle /\ PrevIdle /\ CursorIdle

SpecPage == InitPage /\ [][PageNext]_vars

SpecLoad == InitLoad /\ [][LoadNext]_vars

SpecTree == InitTree /\ [][TreeNext]_vars

SpecNest == InitNest /\ [][NestNext]_vars

SpecOne == InitOne /\ [][OneNext]_vars

SpecDict == InitDict /\ [][DictNext]_vars

SpecRewrite == InitRewrite /\ [][RewriteNext]_vars

SpecSAModel == InitSAModel /\ [][SAModelNext]_vars

SpecLink == InitLink /\ [][LinkNext]_vars

SpecHttp == InitHttp /\ [][HttpNext]_vars

SpecPrev == InitPrev /\ [][PrevNext]_vars

SpecCursor == InitCursor /\ [][CursorNext]_vars

SpecValidate == InitValidate /\ [][ValidateNext]_vars


(***************************************************************************)
(* Claims about pagination, checked under SpecPage                         *)
(***************************************************************************)
\* the ids of the whole table in the order the Query Object sorts it
FullIds(q) == Ids(Ordered(TableRows(total), q.sort))

\* the limit that get_final_limit makes of the limit a Query Object carries
EffectiveLimit(q) == get_final_limit(settings, q.limit)

\* the cursor string a Query Object carries in before or after
SuppliedCursor(q) == IF q.before # NoCursor THEN q.before ELSE q.after

\* a walk from the first page under keyset pagination with a limit >= 1
KeysetWalk ==
    /\ pc # "new"
    /\ first.before = NoCursor /\ first.after = NoCursor /\ first.skip = None
    /\ KeysetCursor_pagination_possible(first)
    /\ EffectiveLimit(first) # None /\ EffectiveLimit(first) >= 1
    /\ faithful

\* C1: walking the next links of keyset pagination from the first page never
\* fails, returns the rows of the table in sort order without duplicate or gap
\* (the rows seen so far are always a prefix of the sorted table), every page
\* that has a next link is full, and a page has no next link exactly when the
\* walk has seen every row.
C1_KeysetWalkVisitsAll ==
    KeysetWalk =>
        /\ pc # "failed"
        /\ pager.cursor_impl.name = "keys"
        /\ visited = SubSeq(FullIds(first), 1, Len(visited))
        /\ pc \in {"fetched", "linked"} =>
            /\ pager.cursor_impl.page_info.has_next_page <=> Len(visited) < total
            /\ pager.cursor_impl.page_info.has_next_page
                    => Len(rows) = EffectiveLimit(first)
        /\ pc = "linked" => (links.next = NoCursor <=> visited = FullIds(first))

C1_Witness ==
    /\ KeysetWalk
    /\ pc = "linked"
    /\ pager.cursor # NoCursor
    /\ links.next = NoCursor
    /\ Len(visited) = MaxRows
    /\ Len(first.sort) = 2
    /\ Len(rows) < EffectiveLimit(first)

ConstructRejected == pc = "failed" /\ pager = NoPager

\* the effective limit of the request disagrees with the limit in its cursor
LimitMismatch(q) ==
    /\ SuppliedCursor(q) # NoCursor
    /\ SuppliedCursor(q) \notin MalformedCursors
    /\ EffectiveLimit(q) \notin {None, SuppliedCursor(q).data.limit}

\* C9: a Query Object that sets more than one of skip, before, after is
\* rejected with QueryObjectError; one that sets at most one of them passes
\* the constructor, unless its limit disagrees with its cursor or its cursor
\* cannot be decoded.
C9_PagingMethodsExclusive ==
    pc # "new" =>
        /\ PagingMethodsSet(query) > 1 =>
                (ConstructRejected /\ raised = "QueryObjectError")
        /\ (/\ PagingMethodsSet(query) <= 1
            /\ ~LimitMismatch(query)
            /\ SuppliedCursor(query) \notin MalformedCursors) =>
                ~ConstructRejected

C9_Witness ==
    /\ ConstructRejected
    /\ raised = "QueryObjectError"
    /\ query.skip = 0
    /\ query.after # NoCursor
    /\ query.before = NoCursor

\* C10 as stated (for limits >= 1): a cursor together with a limit that differs
\* from the limit in the cursor raises QueryObjectError.
C10_AnyOtherLimitRejected ==
    ( /\ pc # "new"
      /\ PagingMethodsSet(query) = 1
      /\ SuppliedCursor(query) # NoCursor
      /\ SuppliedCursor(query) \notin MalformedCursors
      /\ query.limit # None /\ query.limit >= 1
      /\ query.limit # SuppliedCursor(query).data.limit )
    => (ConstructRejected /\ raised = "QueryObjectError")

\* C10 as amended: a cursor together with a limit whose effective value
\* (0 counts as omitted and takes default_limit; the value is clamped to
\* max_limit) is present and differs from the limit in the cursor raises
\* QueryObjectError, for the skip cursor and for the keyset cursor.
C10_EffectiveLimitMismatchRejected ==
    ( /\ pc # "new"
      /\ PagingMethodsSet(query) = 1
      /\ query.limit # None
      /\ LimitMismatch(query) )
    => (ConstructRejected /\ raised = "QueryObjectError")

C10_Witness ==
    /\ ConstructRejected
    /\ raised = "QueryObjectError"
    /\ PagingMethodsSet(query) = 1
    /\ query.after.prefix = "keys"
    /\ query.limit = 1
    /\ query.after.data.limit = 2
    /\ settings.default_limit = None


\* C11: when a request supplies a keyset cursor and its sort columns differ
\* from the column list the cursor carries (added, removed, replaced or
\* re-ordered), QueryObjectError is raised and no page is returned: a page is
\* only ever returned under a keyset cursor whose column list is the
\* request's list of sort columns, in the same order
C11_SortColumnsChangeRejected ==
    (/\ pc \in {"fetched", "linked"}
     /\ SuppliedCursor(query) # NoCursor
     /\ pager.cursor_impl.name = "keys")
    => pager.cursor_impl.cursor_value.cols = SortNames(query.sort)

\* C12: every malformed cursor string a client supplies (no ":" separator,
\* unknown prefix, invalid base85, invalid JSON, a payload with missing or
\* unexpected fields) results in QueryObjectError and in no other exception
C12_MalformedCursorIsQueryObjectError ==
    (pc # "new" /\ SuppliedCursor(query) \in MalformedCursors)
    => (ConstructRejected /\ raised = "QueryObjectError")

\* the offset and the limit of the page a skip cursor serves: those of the
\* cursor the request carries, else the request's skip (0 if it has none) and
\* its effective limit
PageSkip ==
    IF SuppliedCursor(query) # NoCursor THEN SuppliedCursor(query).data.skip
    ELSE IF query.skip # None THEN query.skip ELSE 0

PageLimit ==
    IF SuppliedCursor(query) # NoCursor THEN SuppliedCursor(query).data.limit
    ELSE EffectiveLimit(query)

\* C14: after a skip-cursor page with offset skip and limit is fetched, the
\* prev link is present iff skip > 0 and decodes to
\* {skip: max(skip - limit, 0), limit}; the next link is present iff a next
\* page exists (rows remain after skip + limit) and decodes to
\* {skip: skip + limit, limit}
C14_SkipPageLinks ==
    (/\ pc = "linked"
     /\ pager.cursor_impl.name = "skip"
     /\ PageLimit # None)
    => /\ links.prev # NoCursor <=> PageSkip > 0
       /\ links.prev # NoCursor =>
            /\ decode_opaque_cursor(links.prev)[1] = "skip"
            /\ SkipCursorData_decode(links.prev) =
                    [skip |-> Max(PageSkip - PageLimit, 0), limit |-> PageLimit]
       /\ links.next # NoCursor <=> total > PageSkip + PageLimit
       /\ links.next # NoCursor =>
            /\ decode_opaque_cursor(links.next)[1] = "skip"
            /\ SkipCursorData_decode(links.next) =
                    [skip |-> PageSkip + PageLimit, limit |-> PageLimit]

\* a page in the middle of the table: both links are present
C14_Witness ==
    /\ pc = "linked"
    /\ pager.cursor_impl.name = "skip"
    /\ PageLimit = 1 /\ PageSkip = 1
    /\ links.prev # NoCursor /\ links.next # NoCursor
    /\ SkipCursorData_decode(links.prev).skip = 0
    /\ SkipCursorData_decode(links.next).skip = 2

\* C15: page_links() on a limited query before its results are fetched raises
\* RuntimeError, whichever cursor implementation the query got; after
\* fetchall() it returns the links without error
C15_LinksBeforeFetchRuntimeError ==
    /\ (pc = "ready" /\ pager.limit # None /\ raised # "none")
            => raised = "RuntimeError"
    /\ pc = "linked" => raised = "none"

(***************************************************************************)
(* Claims about the eager loader, checked under SpecLoad                   *)
(***************************************************************************)
\* the children of parent key k in the order the relation's Query Object sorts them
SortedChildren(k) == Ordered(ChildrenOf(k), relation_query.sort)

\* the distinct primary keys of the batch
DistinctKeys == {get_primary_key_tuple(source_states[i]) : i \in 1..Len(source_states)}

\* the rows the relation's statement returns for one key
StatementRows(key) ==
    ExecuteRelated(RelatedQueryStatement(skiplimit_op, relation_query),
                   relation_property, {key}, key)

\* C3: a one-to-many relation loaded with skip s and limit n gives every parent row
\* of the batch exactly the children at positions s+1..s+n of its own sorted
\* children, whatever other parents are in the batch.
C3_RelationWindowPerParent ==
    ( /\ lpc = "done"
      /\ relation_property.key = "articles"
      /\ Truthy(skiplimit_op.limit) )
    => LET s == IF skiplimit_op.skip = None THEN 0 ELSE skiplimit_op.skip
           n == skiplimit_op.limit
       IN \A i \in 1..Len(source_states) :
            LET mine == SortedChildren(get_primary_key_tuple(source_states[i]))
                want == {mine[p] : p \in ((s + 1)..(s + n)) \cap (1..Len(mine))}
            IN /\ populated[i].kind = "list"
               /\ SeqToSet(populated[i].items) = want
               /\ Len(populated[i].items) = Cardinality(want)

\* a batch of several parents was loaded with skip 1, limit 1: a parent with two
\* children got its second child, another parent got nothing
C3_Witness ==
    /\ lpc = "done"
    /\ relation_property.key = "articles"
    /\ skiplimit_op.skip = 1
    /\ skiplimit_op.limit = 1
    /\ \E i, j \in 1..Len(source_states) :
        /\ populated[i].kind = "list"
        /\ Len(populated[i].items) = 1
        /\ populated[i].items[1] = SortedChildren(source_states[i].id)[2]
        /\ source_states[j].id # source_states[i].id
        /\ populated[j] = PyList(<<>>)

\* C4: after a to-one relation is loaded for a batch, every parent row has the
\* relation key set: None for a NULL foreign key (which is in no statement), None
\* for a key that matches no target row, the matching target row otherwise.
C4_ToOneEveryParentSet ==
    ( /\ lpc = "done"
      /\ load_only_child(relation_property) )
    => \A i \in 1..Len(source_states) :
        LET key == source_states[i].user_id IN
        /\ populated[i] # Unset
        /\ key = None =>
            /\ populated[i] = PyNone
            /\ \A j \in 1..Len(statements) : None \notin SeqToSet(statements[j])
        /\ key # None =>
            populated[i] = IF StatementRows(key) = <<>> THEN PyNone
                           ELSE PyRow(StatementRows(key)[1])

RECURSIVE FullLoadPath(_)
\* (Model, relation name, Model, ...) from the root down to the executor at p
FullLoadPath(p) ==
    IF p = <<>> THEN <<root_model>>
    ELSE FullLoadPath(SubSeq(p, 1, Len(p) - 1)) \o <<p[Len(p)], TargetModel(p[Len(p)])>>

\* the executor at p is the executor at q or one above it
IsPrefix(p, q) == Len(p) <= Len(q) /\ SubSeq(q, 1, Len(p)) = p

Constructed == tpc \in {"constructed", "fetching", "fetched"}

\* the executors of the statements executed so far, in order
Executed ==
    LET IsExecute(e) == e.what = "execute"
        executes == SelectSeq(log, IsExecute)
    IN [i \in 1..Len(executes) |-> executes[i].executor]

\* C6: every executor of the tree holds the root's customize_statements and
\* customize_results list objects, so a callback appended to the root's list after
\* construction is invoked for the statement, or the rows, of every level.
C6_HandlersSharedAtEveryDepth ==
    Constructed =>
        /\ \A p \in DOMAIN executors :
            /\ executors[p].customize_statements = executors[<<>>].customize_statements
            /\ executors[p].customize_results = executors[<<>>].customize_results
        /\ \A i \in 1..Len(log) :
            /\ ( /\ log[i].what = "statement"
                 /\ Len(lists.customize_statements[executors[<<>>].customize_statements]) = 2 )
               => "callback" \in SeqToSet(log[i].handlers)
            /\ ( /\ log[i].what = "results"
                 /\ Len(lists.customize_results[executors[<<>>].customize_results]) = 2 )
               => "callback" \in SeqToSet(log[i].handlers)

\* C7: every executor's load_path is the full path from the root entity down to
\* it, and its query_level is its depth in the tree.
C7_LoadPathFullAtEveryDepth ==
    Constructed =>
        \A p \in DOMAIN executors :
            /\ executors[p].load_path = FullLoadPath(p)
            /\ query_level(executors[p]) = Len(p)

\* C8: within one fetchall() the statements execute depth-first: an executor's own
\* statements come before every statement of the executors below it, and the
\* statements of a relation's whole subtree are not interleaved with another's.
C8_StatementsDepthFirst ==
    /\ \A i, j \in 1..Len(Executed) :
        i < j => ~(IsPrefix(Executed[j], Executed[i]) /\ Executed[j] # Executed[i])
    /\ \A p \in DOMAIN executors :
        \A i, j, k \in 1..Len(Executed) :
            (i < j /\ j < k /\ IsPrefix(p, Executed[i]) /\ IsPrefix(p, Executed[k]))
                => IsPrefix(p, Executed[j])

\* a fetchall() finished in which two sibling relations executed statements, one of
\* them with a relation of its own that executed statements in several chunks
C8_Witness ==
    /\ tpc = "fetched"
    /\ \E p, q, r \in DOMAIN executors :
        /\ Len(p) = 1 /\ Len(q) = 1 /\ p # q
        /\ Len(r) = 2 /\ IsPrefix(p, r)
        /\ \E i, j, k, l \in 1..Len(Executed) :
            /\ Executed[i] = p
            /\ Executed[j] = q
            /\ Executed[k] = r
            /\ Executed[l] = r
            /\ k # l

(***************************************************************************)
(* Claims about QueryPage with a joined relation, checked under SpecNest   *)
(***************************************************************************)
\* the top-level query is paginated with cursors: it has a limit or a cursor
TopLevelCursorPaginated ==
    /\ nest_cls = "QueryPage"
    /\ nest_query.page # NoCursor \/ Truthy(nest_query.limit)

\* C13: under a cursor-paginated top-level query, RuntimeQueryError is raised
\* exactly when the nested relation asks for cursor pagination; a nested
\* relation with plain skip/limit or no pagination gets its statement from
\* the window-function variant, without error
C13_NestedCursorOnlyRejected ==
    (/\ TopLevelCursorPaginated
     /\ nest_query.join.selected
     /\ npc \in {"done", "failed"}
     /\ Len(nest_stmts) >= 1)
    => /\ (nest_raised = "RuntimeQueryError") <=> (nest_query.join.page # NoCursor)
       /\ nest_query.join.page = NoCursor =>
            (npc = "done" /\ Len(nest_stmts) = 2)

(***************************************************************************)
(* Claims about fetchone(), checked under SpecOne                          *)
(***************************************************************************)
\* C16: fetchone returns None when the level has no rows; otherwise it loads
\* the selected relations for the first row and returns that row as the
\* apply_to_results / customize_result pipeline produced it: the first
\* element of the pipeline's output
C16_FetchoneReturnsPipelineOutput ==
    opc = "fetchone" =>
        IF one_count = 0 THEN one_returned = PyNone
        ELSE /\ one_states # <<>>
             /\ one_returned = PyRow(one_states[1])
             /\ one_relation => one_states[1].related = 1

(***************************************************************************)
(* Claims about the Query Object dict                                      *)
(***************************************************************************)
DefaultItems ==
    <<Item("select", JList(<<>>)), Item("join", JDict(<<>>)),
      Item("filter", JDict(<<>>)), Item("sort", JList(<<>>)),
      Item("skip", JNull), Item("limit", JNull),
      Item("before", JNull), Item("after", JNull)>>

\* d with its omitted keys filled with the defaults, in d and in every nested query object
RECURSIVE Normalized(_)
NormalizedRelations(relations) ==
    JDict([i \in DOMAIN relations.dict |->
            Item(relations.dict[i].key, Normalized(relations.dict[i].value))])

NormalizedValue(key, value) ==
    IF key = "join" THEN NormalizedRelations(value)
    ELSE IF key = "select"
    THEN JList([i \in DOMAIN value.list |->
                    IF isinstance(value.list[i], "dict")
                    THEN NormalizedRelations(value.list[i])
                    ELSE value.list[i]])
    ELSE value

Normalized(d) ==
    JDict([i \in DOMAIN DefaultItems |->
            LET key == DefaultItems[i].key
            IN  IF key \in dict_keys(d.dict)
                THEN Item(key, NormalizedValue(key, dict_get(d.dict, key)))
                ELSE DefaultItems[i]])

\* C17: for every Query Object dict d in the documented shapes,
\* QueryObject.from_query_object(d).dict() equals d with nothing changed but
\* the omitted keys, which are filled with their defaults.
C17_DictRoundTrip ==
    dpc = "exported" => json_eq(dict_output, Normalized(dict_input))

(***************************************************************************)
(* Claims about the Rewriter                                               *)
(***************************************************************************)
Rewritten == rpc \in {"rewritten", "used"}

RewriteRaised == "exc" \in DOMAIN rw_rewritten

SelectedNames(qobj) == dict_keys(qobj.select.fields)

SortedNames(qobj) == {qobj.sort.fields[i].name : i \in DOMAIN qobj.sort.fields}

FilteredNames(qobj) ==
    {qobj.filter.conditions[i].field :
        i \in {j \in DOMAIN qobj.filter.conditions : "field" \in DOMAIN qobj.filter.conditions[j]}}

\* every rule of the chain declines the name: none answers, skips or fails
AllDecline(name) ==
    \A i \in DOMAIN rw_rewriter.rules : Rule_api_to_db(rw_rewriter.rules[i], name) = Declined

LastRule == rw_rewriter.rules[Len(rw_rewriter.rules)]

\* no rule before the last one knows the name: each of them declines it
UnknownToMappingRules(name) ==
    /\ rw_rewriter.rules # <<>>
    /\ \A i \in 1..(Len(rw_rewriter.rules) - 1) :
            Rule_api_to_db(rw_rewriter.rules[i], name) = Declined

\* C19: when the select list holds a name that no mapping rule knows, a chain
\* that ends with Ignore rewrites without an error and leaves the name out of
\* the select list, and a chain that ends with Fail raises UnknownFieldError.
C19_IgnoreDropsFailRaises ==
    Rewritten =>
        \A name \in SelectedNames(rw_original) :
            UnknownToMappingRules(name) =>
                /\ LastRule = Ignore =>
                        ~RewriteRaised /\ name \notin SelectedNames(rw_rewritten)
                /\ LastRule = Fail =>
                        rw_rewritten = [exc |-> "UnknownFieldError"]

C19_Witness ==
    /\ Rewritten
    /\ Len(rw_rewriter.rules) = 3
    /\ rw_rewriter.rules[1].rule = "Rename"
    /\ rw_rewriter.rules[2].rule = "KeepName"
    /\ LastRule = Fail
    /\ SelectedNames(rw_original) = {<<"a">>, <<"u">>}
    /\ UnknownToMappingRules(<<"u">>)
    /\ rw_rewritten = [exc |-> "UnknownFieldError"]

\* C20: Rewriter.query_object returns a new QueryObject, and neither the
\* rewriting nor the execution of the rewritten QueryObject changes the
\* original or the query of any of its relations.
C20_OriginalNeverMutated ==
    (Rewritten /\ ~RewriteRaised) =>
        /\ rw_rewritten.id \notin {q.id : q \in QueryObjects(rw_original)}
        /\ \A q \in QueryObjects(rw_original) : q.id \notin rw_resolved

(***************************************************************************)
(* Claims about RewriteSAModel                                             *)
(***************************************************************************)
JoinedNames(qobj) == dict_keys(qobj.select.relations)

\* the name the rules give to a name of the join map of the original, if they keep it
JoinNamesKept ==
    {Rewriter_api_to_db(sa_rewriter, name).name :
        name \in {n \in JoinedNames(sa_original) :
                    Rewriter_api_to_db(sa_rewriter, n).kind = "name"}}

\* C21: after RewriteSAModel has rewritten a Query Object, every name left
\* in the join map is a relationship of the model, and every name of the join
\* map that is no relationship is in select, however many such names there are.
C21_NonRelationshipsMovedToSelect ==
    spc = "rewritten" =>
        /\ "exc" \notin DOMAIN sa_rewritten
        /\ JoinedNames(sa_rewritten) \subseteq SAModelRelationships
        /\ (JoinNamesKept \ SAModelRelationships) \subseteq dict_keys(sa_rewritten.select.fields)

(***************************************************************************)
(* Claims about QuerySettings and its Rewriter                             *)
(***************************************************************************)
\* C22: QuerySettings(rewriter=r) with an r that is linked to a QuerySettings
\* fails and leaves r linked to that QuerySettings; with an r that is linked
\* to none it succeeds, and r and the new QuerySettings refer to each other.
C22_RewriterLinkedOnce ==
    qs_call.rewriter # None =>
        /\ qs_call.before # None =>
                /\ qs_call.raised = "AssertionError"
                /\ qs_linked[qs_call.rewriter] = qs_call.before
        /\ qs_call.before = None =>
                /\ qs_call.raised = "none"
                /\ qs_linked[qs_call.rewriter] = Len(qs_constructed)
                /\ qs_constructed[Len(qs_constructed)].rewriter = qs_call.rewriter

C22_Witness ==
    /\ qs_call.rewriter # None
    /\ qs_call.before = 1
    /\ qs_call.raised = "AssertionError"
    /\ Len(qs_constructed) = 2
    /\ qs_linked[qs_call.rewriter] = 1

\* a first request that sets skip and no limit, after its fetchall()
SkipWithoutLimit ==
    /\ pc = "fetched"
    /\ pager.cursor = NoCursor
    /\ query.skip # None
    /\ query.limit = None

\* the statement that fetchall() built for the current Query
BuiltStatement == BeforeAfterOperation_apply_to_statement(pager, query).stmt

\* C24 as stated: a top-level skip without a limit has no effect, the
\* statement has offset 0 and no limit and all rows are returned, whatever
\* the QuerySettings.
C24_SkipWithoutLimitNoEffect ==
    SkipWithoutLimit =>
        /\ BuiltStatement.offset = 0
        /\ BuiltStatement.limit = None
        /\ Ids(rows) = FullIds(query)

\* C24: a top-level skip without a limit has no effect when the settings
\* define no default_limit: the statement has offset 0 and no limit and all
\* rows of the table are returned.
C24_SkipWithoutAnyLimitNoEffect ==
    (SkipWithoutLimit /\ settings.default_limit = None) =>
        /\ BuiltStatement.offset = 0
        /\ BuiltStatement.limit = None
        /\ Ids(rows) = FullIds(query)

C24_Witness ==
    /\ SkipWithoutLimit
    /\ settings.default_limit = None
    /\ pager.cursor_impl.name = "skip"
    /\ query.skip = 1
    /\ total = MaxRows
    /\ Len(rows) = MaxRows

\* the child rows that the statements of the loader fetched
FetchedChildRows ==
    UNION { UNION { SeqToSet(ExecuteRelated(
                        RelatedQueryStatement(skiplimit_op, relation_query),
                        relation_property, SeqToSet(statements[i]), key)) :
                    key \in SeqToSet(statements[i]) } :
            i \in 1..Len(statements) }

\* C27: for every relation, the objects that the loader yields are exactly
\* the child rows it fetched, each a single row: never a list, never None.
C27_YieldsFetchedRows ==
    lpc = "done" =>
        /\ \A item \in yielded_items : item.kind = "row"
        /\ yielded_items = {PyRow(row) : row \in FetchedChildRows}

\* the current Query is a follow-up of a first request without a cursor: the
\* same Query Object with "after" set to a next link and "limit" left out
FollowUpWithoutLimit ==
    /\ pc # "new"
    /\ first.before = NoCursor /\ first.after = NoCursor
    /\ query.after # NoCursor
    /\ query = [first EXCEPT !.skip = None, !.after = query.after, !.limit = None]

\* C28: a follow-up request with a cursor and no limit is accepted, and
\* paginates with the limit that the cursor carries, for all QuerySettings.
C28_FollowUpWithoutLimitAccepted ==
    FollowUpWithoutLimit =>
        /\ pc # "failed"
        /\ pager.limit = KeysetCursorData_decode(query.after).limit

\* C29: with max_limit set in the QuerySettings, fetchall() returns at most
\* max_limit rows, whatever limit the request carries, also when it carries
\* none.
C29_AtMostMaxLimitRows ==
    (pc \in {"fetched", "linked"} /\ Truthy(settings.max_limit))
        => Len(rows) <= settings.max_limit

(***************************************************************************)
(* Claims about the FastAPI dependency                                     *)
(***************************************************************************)
ParameterNames == {"select", "join", "filter", "sort", "skip", "limit"}

Supplied == {name \in ParameterNames : http_params[name] # JNull}

WellFormed ==
    \A name \in {"select", "join", "filter", "sort"} :
        parse_serialized_argument(http_yaml, http_params[name]) # Malformed

\* the Query Object of the values that the request supplies
SuppliedQueryObject ==
    QueryObject_from_query_object(
        JDict(<<Item("select", parse_serialized_argument(http_yaml, http_params.select)),
                Item("join", parse_serialized_argument(http_yaml, http_params.join)),
                Item("filter", parse_serialized_argument(http_yaml, http_params.filter)),
                Item("sort", parse_serialized_argument(http_yaml, http_params.sort)),
                Item("skip", http_params.skip),
                Item("limit", http_params.limit)>>))

\* C23: for a request whose parameters can be parsed, query_object() returns
\* None exactly when the request supplies none of the parameters, and else
\* the Query Object of the values supplied.
C23_NoneIffNothingSupplied ==
    (hpc = "done" /\ WellFormed) =>
        /\ Supplied = {} <=> http_result = [returned |-> "None"]
        /\ Supplied # {} =>
                http_result = [returned |-> "QueryObject", query |-> SuppliedQueryObject]

(***************************************************************************)
(* Claims about the prev link of keyset pagination                         *)
(***************************************************************************)
\* the client walked to page P+1 by next links, followed its prev link, and
\* fetched the page that the link names
WentBack ==
    /\ pv_back
    /\ ppc \in {"fetched", "linked"}
    /\ Len(pv_pages) >= 3

\* C25: under keyset pagination, the page that the prev link of page P+1
\* names holds exactly the rows of page P in the same order.
C25_PrevReturnsPreviousPage ==
    WentBack => pv_pages[Len(pv_pages)] = pv_pages[Len(pv_pages) - 2]

(***************************************************************************)
(* Claims about the rows of a QueryPage                                    *)
(***************************************************************************)
\* C26: under cursor pagination with the effective limit L, fetchall()
\* returns at most L rows at the top level, for every requested limit and all
\* QuerySettings.
C26_AtMostEffectiveLimitRows ==
    (cpc = "fetched" /\ Truthy(get_final_limit(cp_settings, cp_query.limit)))
        => Len(cp_rows) <= get_final_limit(cp_settings, cp_query.limit)

(***************************************************************************)
(* Claims about the errors of a Query Object                               *)
(***************************************************************************)
\* C30: an error that the content of the Query Object causes, at any level,
\* is raised before the first SQL statement of the request is executed.
C30_ErrorsBeforeFirstStatement ==
    vl_raised # "none" => vl_executed = 0

=============================================================================
